---- MODULE Spec2Model ----
(***************************************************************************)
(* State-machine model of financial_agent.py: the Streamlit session state  *)
(* (agents_initialized, watchlist, analysis_history), the symbol resolver  *)
(* get_symbol_from_name, and one action per button handler of main().      *)
(*                                                                         *)
(* A Python str is a sequence of characters, so that str.upper() and       *)
(* string concatenation are computed, not assumed.  An ASCII character is  *)
(* written as a one-character string, a character outside ASCII by its     *)
(* code point ("U+017F" is the long s).                                    *)
(* One step of the model is one run of the script (one user action).       *)
(***************************************************************************)
EXTENDS Integers, Sequences, FiniteSets, TLC

VARIABLES agents_initialized, watchlist, analysis_history, last, info_attr

vars == <<agents_initialized, watchlist, analysis_history, last, info_attr>>

(***************************************************************************)
(* Bounds of the model (not program constants).                            *)
(***************************************************************************)
\* datetime.now() is read from the environment; it is drawn from 1..MaxTime
MaxTime == 1

(***************************************************************************)
(* Python values                                                           *)
(***************************************************************************)
\* Python's None.  No str equals it: no element of a str is written "None".
None == <<"None">>

\* truth value of a str-or-None, as in `if symbol:` and `if not stock_input:`
Truthy(v) == v # None /\ v # <<>>

LowerCase == <<"a","b","c","d","e","f","g","h","i","j","k","l","m",
               "n","o","p","q","r","s","t","u","v","w","x","y","z">>
UpperCase == <<"A","B","C","D","E","F","G","H","I","J","K","L","M",
               "N","O","P","Q","R","S","T","U","V","W","X","Y","Z">>

\* str.upper() of every lower-case ASCII letter
ToUpper ==
    [c \in {LowerCase[i] : i \in 1..26} |-> UpperCase[CHOOSE i \in 1..26 : LowerCase[i] = c]]

\* str.upper() of a character outside ASCII, as a str: one arm for every such
\* character that str.upper() changes (Unicode 14.0 full case mapping, as in
\* Python 3.11: the result may be an ASCII letter, and may be longer than one
\* character); every other character is left as it is
UpperNonAscii(c) ==
    CASE c = "U+00B5" -> <<"U+039C">>
      [] c = "U+00DF" -> <<"S","S">>
      [] c = "U+00E0" -> <<"U+00C0">>
      [] c = "U+00E1" -> <<"U+00C1">>
      [] c = "U+00E2" -> <<"U+00C2">>
      [] c = "U+00E3" -> <<"U+00C3">>
      [] c = "U+00E4" -> <<"U+00C4">>
      [] c = "U+00E5" -> <<"U+00C5">>
      [] c = "U+00E6" -> <<"U+00C6">>
      [] c = "U+00E7" -> <<"U+00C7">>
      [] c = "U+00E8" -> <<"U+00C8">>
      [] c = "U+00E9" -> <<"U+00C9">>
      [] c = "U+00EA" -> <<"U+00CA">>
      [] c = "U+00EB" -> <<"U+00CB">>
      [] c = "U+00EC" -> <<"U+00CC">>
      [] c = "U+00ED" -> <<"U+00CD">>
      [] c = "U+00EE" -> <<"U+00CE">>
      [] c = "U+00EF" -> <<"U+00CF">>
      [] c = "U+00F0" -> <<"U+00D0">>
      [] c = "U+00F1" -> <<"U+00D1">>
      [] c = "U+00F2" -> <<"U+00D2">>
      [] c = "U+00F3" -> <<"U+00D3">>
      [] c = "U+00F4" -> <<"U+00D4">>
      [] c = "U+00F5" -> <<"U+00D5">>
      [] c = "U+00F6" -> <<"U+00D6">>
      [] c = "U+00F8" -> <<"U+00D8">>
      [] c = "U+00F9" -> <<"U+00D9">>
      [] c = "U+00FA" -> <<"U+00DA">>
      [] c = "U+00FB" -> <<"U+00DB">>
      [] c = "U+00FC" -> <<"U+00DC">>
      [] c = "U+00FD" -> <<"U+00DD">>
      [] c = "U+00FE" -> <<"U+00DE">>
      [] c = "U+00FF" -> <<"U+0178">>
      [] c = "U+0101" -> <<"U+0100">>
      [] c = "U+0103" -> <<"U+0102">>
      [] c = "U+0105" -> <<"U+0104">>
      [] c = "U+0107" -> <<"U+0106">>
      [] c = "U+0109" -> <<"U+0108">>
      [] c = "U+010B" -> <<"U+010A">>
      [] c = "U+010D" -> <<"U+010C">>
      [] c = "U+010F" -> <<"U+010E">>
      [] c = "U+0111" -> <<"U+0110">>
      [] c = "U+0113" -> <<"U+0112">>
      [] c = "U+0115" -> <<"U+0114">>
      [] c = "U+0117" -> <<"U+0116">>
      [] c = "U+0119" -> <<"U+0118">>
      [] c = "U+011B" -> <<"U+011A">>
      [] c = "U+011D" -> <<"U+011C">>
      [] c = "U+011F" -> <<"U+011E">>
      [] c = "U+0121" -> <<"U+0120">>
      [] c = "U+0123" -> <<"U+0122">>
      [] c = "U+0125" -> <<"U+0124">>
      [] c = "U+0127" -> <<"U+0126">>
      [] c = "U+0129" -> <<"U+0128">>
      [] c = "U+012B" -> <<"U+012A">>
      [] c = "U+012D" -> <<"U+012C">>
      [] c = "U+012F" -> <<"U+012E">>
      [] c = "U+0131" -> <<"I">>
      [] c = "U+0133" -> <<"U+0132">>
      [] c = "U+0135" -> <<"U+0134">>
      [] c = "U+0137" -> <<"U+0136">>
      [] c = "U+013A" -> <<"U+0139">>
      [] c = "U+013C" -> <<"U+013B">>
      [] c = "U+013E" -> <<"U+013D">>
      [] c = "U+0140" -> <<"U+013F">>
      [] c = "U+0142" -> <<"U+0141">>
      [] c = "U+0144" -> <<"U+0143">>
      [] c = "U+0146" -> <<"U+0145">>
      [] c = "U+0148" -> <<"U+0147">>
      [] c = "U+0149" -> <<"U+02BC","N">>
      [] c = "U+014B" -> <<"U+014A">>
      [] c = "U+014D" -> <<"U+014C">>
      [] c = "U+014F" -> <<"U+014E">>
      [] c = "U+0151" -> <<"U+0150">>
      [] c = "U+0153" -> <<"U+0152">>
      [] c = "U+0155" -> <<"U+0154">>
      [] c = "U+0157" -> <<"U+0156">>
      [] c = "U+0159" -> <<"U+0158">>
      [] c = "U+015B" -> <<"U+015A">>
      [] c = "U+015D" -> <<"U+015C">>
      [] c = "U+015F" -> <<"U+015E">>
      [] c = "U+0161" -> <<"U+0160">>
      [] c = "U+0163" -> <<"U+0162">>
      [] c = "U+0165" -> <<"U+0164">>
      [] c = "U+0167" -> <<"U+0166">>
      [] c = "U+0169" -> <<"U+0168">>
      [] c = "U+016B" -> <<"U+016A">>
      [] c = "U+016D" -> <<"U+016C">>
      [] c = "U+016F" -> <<"U+016E">>
      [] c = "U+0171" -> <<"U+0170">>
      [] c = "U+0173" -> <<"U+0172">>
      [] c = "U+0175" -> <<"U+0174">>
      [] c = "U+0177" -> <<"U+0176">>
      [] c = "U+017A" -> <<"U+0179">>
      [] c = "U+017C" -> <<"U+017B">>
      [] c = "U+017E" -> <<"U+017D">>
      [] c = "U+017F" -> <<"S">>
      [] c = "U+0180" -> <<"U+0243">>
      [] c = "U+0183" -> <<"U+0182">>
      [] c = "U+0185" -> <<"U+0184">>
      [] c = "U+0188" -> <<"U+0187">>
      [] c = "U+018C" -> <<"U+018B">>
      [] c = "U+0192" -> <<"U+0191">>
      [] c = "U+0195" -> <<"U+01F6">>
      [] c = "U+0199" -> <<"U+0198">>
      [] c = "U+019A" -> <<"U+023D">>
      [] c = "U+019E" -> <<"U+0220">>
      [] c = "U+01A1" -> <<"U+01A0">>
      [] c = "U+01A3" -> <<"U+01A2">>
      [] c = "U+01A5" -> <<"U+01A4">>
      [] c = "U+01A8" -> <<"U+01A7">>
      [] c = "U+01AD" -> <<"U+01AC">>
      [] c = "U+01B0" -> <<"U+01AF">>
      [] c = "U+01B4" -> <<"U+01B3">>
      [] c = "U+01B6" -> <<"U+01B5">>
      [] c = "U+01B9" -> <<"U+01B8">>
      [] c = "U+01BD" -> <<"U+01BC">>
      [] c = "U+01BF" -> <<"U+01F7">>
      [] c = "U+01C5" -> <<"U+01C4">>
      [] c = "U+01C6" -> <<"U+01C4">>
      [] c = "U+01C8" -> <<"U+01C7">>
      [] c = "U+01C9" -> <<"U+01C7">>
      [] c = "U+01CB" -> <<"U+01CA">>
      [] c = "U+01CC" -> <<"U+01CA">>
      [] c = "U+01CE" -> <<"U+01CD">>
      [] c = "U+01D0" -> <<"U+01CF">>
      [] c = "U+01D2" -> <<"U+01D1">>
      [] c = "U+01D4" -> <<"U+01D3">>
      [] c = "U+01D6" -> <<"U+01D5">>
      [] c = "U+01D8" -> <<"U+01D7">>
      [] c = "U+01DA" -> <<"U+01D9">>
      [] c = "U+01DC" -> <<"U+01DB">>
      [] c = "U+01DD" -> <<"U+018E">>
      [] c = "U+01DF" -> <<"U+01DE">>
      [] c = "U+01E1" -> <<"U+01E0">>
      [] c = "U+01E3" -> <<"U+01E2">>
      [] c = "U+01E5" -> <<"U+01E4">>
      [] c = "U+01E7" -> <<"U+01E6">>
      [] c = "U+01E9" -> <<"U+01E8">>
      [] c = "U+01EB" -> <<"U+01EA">>
      [] c = "U+01ED" -> <<"U+01EC">>
      [] c = "U+01EF" -> <<"U+01EE">>
      [] c = "U+01F0" -> <<"J","U+030C">>
      [] c = "U+01F2" -> <<"U+01F1">>
      [] c = "U+01F3" -> <<"U+01F1">>
      [] c = "U+01F5" -> <<"U+01F4">>
      [] c = "U+01F9" -> <<"U+01F8">>
      [] c = "U+01FB" -> <<"U+01FA">>
      [] c = "U+01FD" -> <<"U+01FC">>
      [] c = "U+01FF" -> <<"U+01FE">>
      [] c = "U+0201" -> <<"U+0200">>
      [] c = "U+0203" -> <<"U+0202">>
      [] c = "U+0205" -> <<"U+0204">>
      [] c = "U+0207" -> <<"U+0206">>
      [] c = "U+0209" -> <<"U+0208">>
      [] c = "U+020B" -> <<"U+020A">>
      [] c = "U+020D" -> <<"U+020C">>
      [] c = "U+020F" -> <<"U+020E">>
      [] c = "U+0211" -> <<"U+0210">>
      [] c = "U+0213" -> <<"U+0212">>
      [] c = "U+0215" -> <<"U+0214">>
      [] c = "U+0217" -> <<"U+0216">>
      [] c = "U+0219" -> <<"U+0218">>
      [] c = "U+021B" -> <<"U+021A">>
      [] c = "U+021D" -> <<"U+021C">>
      [] c = "U+021F" -> <<"U+021E">>
      [] c = "U+0223" -> <<"U+0222">>
      [] c = "U+0225" -> <<"U+0224">>
      [] c = "U+0227" -> <<"U+0226">>
      [] c = "U+0229" -> <<"U+0228">>
      [] c = "U+022B" -> <<"U+022A">>
      [] c = "U+022D" -> <<"U+022C">>
      [] c = "U+022F" -> <<"U+022E">>
      [] c = "U+0231" -> <<"U+0230">>
      [] c = "U+0233" -> <<"U+0232">>
      [] c = "U+023C" -> <<"U+023B">>
      [] c = "U+023F" -> <<"U+2C7E">>
      [] c = "U+0240" -> <<"U+2C7F">>
      [] c = "U+0242" -> <<"U+0241">>
      [] c = "U+0247" -> <<"U+0246">>
      [] c = "U+0249" -> <<"U+0248">>
      [] c = "U+024B" -> <<"U+024A">>
      [] c = "U+024D" -> <<"U+024C">>
      [] c = "U+024F" -> <<"U+024E">>
      [] c = "U+0250" -> <<"U+2C6F">>
      [] c = "U+0251" -> <<"U+2C6D">>
      [] c = "U+0252" -> <<"U+2C70">>
      [] c = "U+0253" -> <<"U+0181">>
      [] c = "U+0254" -> <<"U+0186">>
      [] c = "U+0256" -> <<"U+0189">>
      [] c = "U+0257" -> <<"U+018A">>
      [] c = "U+0259" -> <<"U+018F">>
      [] c = "U+025B" -> <<"U+0190">>
      [] c = "U+025C" -> <<"U+A7AB">>
      [] c = "U+0260" -> <<"U+0193">>
      [] c = "U+0261" -> <<"U+A7AC">>
      [] c = "U+0263" -> <<"U+0194">>
      [] c = "U+0265" -> <<"U+A78D">>
      [] c = "U+0266" -> <<"U+A7AA">>
      [] c = "U+0268" -> <<"U+0197">>
      [] c = "U+0269" -> <<"U+0196">>
      [] c = "U+026A" -> <<"U+A7AE">>
      [] c = "U+026B" -> <<"U+2C62">>
      [] c = "U+026C" -> <<"U+A7AD">>
      [] c = "U+026F" -> <<"U+019C">>
      [] c = "U+0271" -> <<"U+2C6E">>
      [] c = "U+0272" -> <<"U+019D">>
      [] c = "U+0275" -> <<"U+019F">>
      [] c = "U+027D" -> <<"U+2C64">>
      [] c = "U+0280" -> <<"U+01A6">>
      [] c = "U+0282" -> <<"U+A7C5">>
      [] c = "U+0283" -> <<"U+01A9">>
      [] c = "U+0287" -> <<"U+A7B1">>
      [] c = "U+0288" -> <<"U+01AE">>
      [] c = "U+0289" -> <<"U+0244">>
      [] c = "U+028A" -> <<"U+01B1">>
      [] c = "U+028B" -> <<"U+01B2">>
      [] c = "U+028C" -> <<"U+0245">>
      [] c = "U+0292" -> <<"U+01B7">>
      [] c = "U+029D" -> <<"U+A7B2">>
      [] c = "U+029E" -> <<"U+A7B0">>
      [] c = "U+0345" -> <<"U+0399">>
      [] c = "U+0371" -> <<"U+0370">>
      [] c = "U+0373" -> <<"U+0372">>
      [] c = "U+0377" -> <<"U+0376">>
      [] c = "U+037B" -> <<"U+03FD">>
      [] c = "U+037C" -> <<"U+03FE">>
      [] c = "U+037D" -> <<"U+03FF">>
      [] c = "U+0390" -> <<"U+0399","U+0308","U+0301">>
      [] c = "U+03AC" -> <<"U+0386">>
      [] c = "U+03AD" -> <<"U+0388">>
      [] c = "U+03AE" -> <<"U+0389">>
      [] c = "U+03AF" -> <<"U+038A">>
      [] c = "U+03B0" -> <<"U+03A5","U+0308","U+0301">>
      [] c = "U+03B1" -> <<"U+0391">>
      [] c = "U+03B2" -> <<"U+0392">>
      [] c = "U+03B3" -> <<"U+0393">>
      [] c = "U+03B4" -> <<"U+0394">>
      [] c = "U+03B5" -> <<"U+0395">>
      [] c = "U+03B6" -> <<"U+0396">>
      [] c = "U+03B7" -> <<"U+0397">>
      [] c = "U+03B8" -> <<"U+0398">>
      [] c = "U+03B9" -> <<"U+0399">>
      [] c = "U+03BA" -> <<"U+039A">>
      [] c = "U+03BB" -> <<"U+039B">>
      [] c = "U+03BC" -> <<"U+039C">>
      [] c = "U+03BD" -> <<"U+039D">>
      [] c = "U+03BE" -> <<"U+039E">>
      [] c = "U+03BF" -> <<"U+039F">>
      [] c = "U+03C0" -> <<"U+03A0">>
      [] c = "U+03C1" -> <<"U+03A1">>
      [] c = "U+03C2" -> <<"U+03A3">>
      [] c = "U+03C3" -> <<"U+03A3">>
      [] c = "U+03C4" -> <<"U+03A4">>
      [] c = "U+03C5" -> <<"U+03A5">>
      [] c = "U+03C6" -> <<"U+03A6">>
      [] c = "U+03C7" -> <<"U+03A7">>
      [] c = "U+03C8" -> <<"U+03A8">>
      [] c = "U+03C9" -> <<"U+03A9">>
      [] c = "U+03CA" -> <<"U+03AA">>
      [] c = "U+03CB" -> <<"U+03AB">>
      [] c = "U+03CC" -> <<"U+038C">>
      [] c = "U+03CD" -> <<"U+038E">>
      [] c = "U+03CE" -> <<"U+038F">>
      [] c = "U+03D0" -> <<"U+0392">>
      [] c = "U+03D1" -> <<"U+0398">>
      [] c = "U+03D5" -> <<"U+03A6">>
      [] c = "U+03D6" -> <<"U+03A0">>
      [] c = "U+03D7" -> <<"U+03CF">>
      [] c = "U+03D9" -> <<"U+03D8">>
      [] c = "U+03DB" -> <<"U+03DA">>
      [] c = "U+03DD" -> <<"U+03DC">>
      [] c = "U+03DF" -> <<"U+03DE">>
      [] c = "U+03E1" -> <<"U+03E0">>
      [] c = "U+03E3" -> <<"U+03E2">>
      [] c = "U+03E5" -> <<"U+03E4">>
      [] c = "U+03E7" -> <<"U+03E6">>
      [] c = "U+03E9" -> <<"U+03E8">>
      [] c = "U+03EB" -> <<"U+03EA">>
      [] c = "U+03ED" -> <<"U+03EC">>
      [] c = "U+03EF" -> <<"U+03EE">>
      [] c = "U+03F0" -> <<"U+039A">>
      [] c = "U+03F1" -> <<"U+03A1">>
      [] c = "U+03F2" -> <<"U+03F9">>
      [] c = "U+03F3" -> <<"U+037F">>
      [] c = "U+03F5" -> <<"U+0395">>
      [] c = "U+03F8" -> <<"U+03F7">>
      [] c = "U+03FB" -> <<"U+03FA">>
      [] c = "U+0430" -> <<"U+0410">>
      [] c = "U+0431" -> <<"U+0411">>
      [] c = "U+0432" -> <<"U+0412">>
      [] c = "U+0433" -> <<"U+0413">>
      [] c = "U+0434" -> <<"U+0414">>
      [] c = "U+0435" -> <<"U+0415">>
      [] c = "U+0436" -> <<"U+0416">>
      [] c = "U+0437" -> <<"U+0417">>
      [] c = "U+0438" -> <<"U+0418">>
      [] c = "U+0439" -> <<"U+0419">>
      [] c = "U+043A" -> <<"U+041A">>
      [] c = "U+043B" -> <<"U+041B">>
      [] c = "U+043C" -> <<"U+041C">>
      [] c = "U+043D" -> <<"U+041D">>
      [] c = "U+043E" -> <<"U+041E">>
      [] c = "U+043F" -> <<"U+041F">>
      [] c = "U+0440" -> <<"U+0420">>
      [] c = "U+0441" -> <<"U+0421">>
      [] c = "U+0442" -> <<"U+0422">>
      [] c = "U+0443" -> <<"U+0423">>
      [] c = "U+0444" -> <<"U+0424">>
      [] c = "U+0445" -> <<"U+0425">>
      [] c = "U+0446" -> <<"U+0426">>
      [] c = "U+0447" -> <<"U+0427">>
      [] c = "U+0448" -> <<"U+0428">>
      [] c = "U+0449" -> <<"U+0429">>
      [] c = "U+044A" -> <<"U+042A">>
      [] c = "U+044B" -> <<"U+042B">>
      [] c = "U+044C" -> <<"U+042C">>
      [] c = "U+044D" -> <<"U+042D">>
      [] c = "U+044E" -> <<"U+042E">>
      [] c = "U+044F" -> <<"U+042F">>
      [] c = "U+0450" -> <<"U+0400">>
      [] c = "U+0451" -> <<"U+0401">>
      [] c = "U+0452" -> <<"U+0402">>
      [] c = "U+0453" -> <<"U+0403">>
      [] c = "U+0454" -> <<"U+0404">>
      [] c = "U+0455" -> <<"U+0405">>
      [] c = "U+0456" -> <<"U+0406">>
      [] c = "U+0457" -> <<"U+0407">>
      [] c = "U+0458" -> <<"U+0408">>
      [] c = "U+0459" -> <<"U+0409">>
      [] c = "U+045A" -> <<"U+040A">>
      [] c = "U+045B" -> <<"U+040B">>
      [] c = "U+045C" -> <<"U+040C">>
      [] c = "U+045D" -> <<"U+040D">>
      [] c = "U+045E" -> <<"U+040E">>
      [] c = "U+045F" -> <<"U+040F">>
      [] c = "U+0461" -> <<"U+0460">>
      [] c = "U+0463" -> <<"U+0462">>
      [] c = "U+0465" -> <<"U+0464">>
      [] c = "U+0467" -> <<"U+0466">>
      [] c = "U+0469" -> <<"U+0468">>
      [] c = "U+046B" -> <<"U+046A">>
      [] c = "U+046D" -> <<"U+046C">>
      [] c = "U+046F" -> <<"U+046E">>
      [] c = "U+0471" -> <<"U+0470">>
      [] c = "U+0473" -> <<"U+0472">>
      [] c = "U+0475" -> <<"U+0474">>
      [] c = "U+0477" -> <<"U+0476">>
      [] c = "U+0479" -> <<"U+0478">>
      [] c = "U+047B" -> <<"U+047A">>
      [] c = "U+047D" -> <<"U+047C">>
      [] c = "U+047F" -> <<"U+047E">>
      [] c = "U+0481" -> <<"U+0480">>
      [] c = "U+048B" -> <<"U+048A">>
      [] c = "U+048D" -> <<"U+048C">>
      [] c = "U+048F" -> <<"U+048E">>
      [] c = "U+0491" -> <<"U+0490">>
      [] c = "U+0493" -> <<"U+0492">>
      [] c = "U+0495" -> <<"U+0494">>
      [] c = "U+0497" -> <<"U+0496">>
      [] c = "U+0499" -> <<"U+0498">>
      [] c = "U+049B" -> <<"U+049A">>
      [] c = "U+049D" -> <<"U+049C">>
      [] c = "U+049F" -> <<"U+049E">>
      [] c = "U+04A1" -> <<"U+04A0">>
      [] c = "U+04A3" -> <<"U+04A2">>
      [] c = "U+04A5" -> <<"U+04A4">>
      [] c = "U+04A7" -> <<"U+04A6">>
      [] c = "U+04A9" -> <<"U+04A8">>
      [] c = "U+04AB" -> <<"U+04AA">>
      [] c = "U+04AD" -> <<"U+04AC">>
      [] c = "U+04AF" -> <<"U+04AE">>
      [] c = "U+04B1" -> <<"U+04B0">>
      [] c = "U+04B3" -> <<"U+04B2">>
      [] c = "U+04B5" -> <<"U+04B4">>
      [] c = "U+04B7" -> <<"U+04B6">>
      [] c = "U+04B9" -> <<"U+04B8">>
      [] c = "U+04BB" -> <<"U+04BA">>
      [] c = "U+04BD" -> <<"U+04BC">>
      [] c = "U+04BF" -> <<"U+04BE">>
      [] c = "U+04C2" -> <<"U+04C1">>
      [] c = "U+04C4" -> <<"U+04C3">>
      [] c = "U+04C6" -> <<"U+04C5">>
      [] c = "U+04C8" -> <<"U+04C7">>
      [] c = "U+04CA" -> <<"U+04C9">>
      [] c = "U+04CC" -> <<"U+04CB">>
      [] c = "U+04CE" -> <<"U+04CD">>
      [] c = "U+04CF" -> <<"U+04C0">>
      [] c = "U+04D1" -> <<"U+04D0">>
      [] c = "U+04D3" -> <<"U+04D2">>
      [] c = "U+04D5" -> <<"U+04D4">>
      [] c = "U+04D7" -> <<"U+04D6">>
      [] c = "U+04D9" -> <<"U+04D8">>
      [] c = "U+04DB" -> <<"U+04DA">>
      [] c = "U+04DD" -> <<"U+04DC">>
      [] c = "U+04DF" -> <<"U+04DE">>
      [] c = "U+04E1" -> <<"U+04E0">>
      [] c = "U+04E3" -> <<"U+04E2">>
      [] c = "U+04E5" -> <<"U+04E4">>
      [] c = "U+04E7" -> <<"U+04E6">>
      [] c = "U+04E9" -> <<"U+04E8">>
      [] c = "U+04EB" -> <<"U+04EA">>
      [] c = "U+04ED" -> <<"U+04EC">>
      [] c = "U+04EF" -> <<"U+04EE">>
      [] c = "U+04F1" -> <<"U+04F0">>
      [] c = "U+04F3" -> <<"U+04F2">>
      [] c = "U+04F5" -> <<"U+04F4">>
      [] c = "U+04F7" -> <<"U+04F6">>
      [] c = "U+04F9" -> <<"U+04F8">>
      [] c = "U+04FB" -> <<"U+04FA">>
      [] c = "U+04FD" -> <<"U+04FC">>
      [] c = "U+04FF" -> <<"U+04FE">>
      [] c = "U+0501" -> <<"U+0500">>
      [] c = "U+0503" -> <<"U+0502">>
      [] c = "U+0505" -> <<"U+0504">>
      [] c = "U+0507" -> <<"U+0506">>
      [] c = "U+0509" -> <<"U+0508">>
      [] c = "U+050B" -> <<"U+050A">>
      [] c = "U+050D" -> <<"U+050C">>
      [] c = "U+050F" -> <<"U+050E">>
      [] c = "U+0511" -> <<"U+0510">>
      [] c = "U+0513" -> <<"U+0512">>
      [] c = "U+0515" -> <<"U+0514">>
      [] c = "U+0517" -> <<"U+0516">>
      [] c = "U+0519" -> <<"U+0518">>
      [] c = "U+051B" -> <<"U+051A">>
      [] c = "U+051D" -> <<"U+051C">>
      [] c = "U+051F" -> <<"U+051E">>
      [] c = "U+0521" -> <<"U+0520">>
      [] c = "U+0523" -> <<"U+0522">>
      [] c = "U+0525" -> <<"U+0524">>
      [] c = "U+0527" -> <<"U+0526">>
      [] c = "U+0529" -> <<"U+0528">>
      [] c = "U+052B" -> <<"U+052A">>
      [] c = "U+052D" -> <<"U+052C">>
      [] c = "U+052F" -> <<"U+052E">>
      [] c = "U+0561" -> <<"U+0531">>
      [] c = "U+0562" -> <<"U+0532">>
      [] c = "U+0563" -> <<"U+0533">>
      [] c = "U+0564" -> <<"U+0534">>
      [] c = "U+0565" -> <<"U+0535">>
      [] c = "U+0566" -> <<"U+0536">>
      [] c = "U+0567" -> <<"U+0537">>
      [] c = "U+0568" -> <<"U+0538">>
      [] c = "U+0569" -> <<"U+0539">>
      [] c = "U+056A" -> <<"U+053A">>
      [] c = "U+056B" -> <<"U+053B">>
      [] c = "U+056C" -> <<"U+053C">>
      [] c = "U+056D" -> <<"U+053D">>
      [] c = "U+056E" -> <<"U+053E">>
      [] c = "U+056F" -> <<"U+053F">>
      [] c = "U+0570" -> <<"U+0540">>
      [] c = "U+0571" -> <<"U+0541">>
      [] c = "U+0572" -> <<"U+0542">>
      [] c = "U+0573" -> <<"U+0543">>
      [] c = "U+0574" -> <<"U+0544">>
      [] c = "U+0575" -> <<"U+0545">>
      [] c = "U+0576" -> <<"U+0546">>
      [] c = "U+0577" -> <<"U+0547">>
      [] c = "U+0578" -> <<"U+0548">>
      [] c = "U+0579" -> <<"U+0549">>
      [] c = "U+057A" -> <<"U+054A">>
      [] c = "U+057B" -> <<"U+054B">>
      [] c = "U+057C" -> <<"U+054C">>
      [] c = "U+057D" -> <<"U+054D">>
      [] c = "U+057E" -> <<"U+054E">>
      [] c = "U+057F" -> <<"U+054F">>
      [] c = "U+0580" -> <<"U+0550">>
      [] c = "U+0581" -> <<"U+0551">>
      [] c = "U+0582" -> <<"U+0552">>
      [] c = "U+0583" -> <<"U+0553">>
      [] c = "U+0584" -> <<"U+0554">>
      [] c = "U+0585" -> <<"U+0555">>
      [] c = "U+0586" -> <<"U+0556">>
      [] c = "U+0587" -> <<"U+0535","U+0552">>
      [] c = "U+10D0" -> <<"U+1C90">>
      [] c = "U+10D1" -> <<"U+1C91">>
      [] c = "U+10D2" -> <<"U+1C92">>
      [] c = "U+10D3" -> <<"U+1C93">>
      [] c = "U+10D4" -> <<"U+1C94">>
      [] c = "U+10D5" -> <<"U+1C95">>
      [] c = "U+10D6" -> <<"U+1C96">>
      [] c = "U+10D7" -> <<"U+1C97">>
      [] c = "U+10D8" -> <<"U+1C98">>
      [] c = "U+10D9" -> <<"U+1C99">>
      [] c = "U+10DA" -> <<"U+1C9A">>
      [] c = "U+10DB" -> <<"U+1C9B">>
      [] c = "U+10DC" -> <<"U+1C9C">>
      [] c = "U+10DD" -> <<"U+1C9D">>
      [] c = "U+10DE" -> <<"U+1C9E">>
      [] c = "U+10DF" -> <<"U+1C9F">>
      [] c = "U+10E0" -> <<"U+1CA0">>
      [] c = "U+10E1" -> <<"U+1CA1">>
      [] c = "U+10E2" -> <<"U+1CA2">>
      [] c = "U+10E3" -> <<"U+1CA3">>
      [] c = "U+10E4" -> <<"U+1CA4">>
      [] c = "U+10E5" -> <<"U+1CA5">>
      [] c = "U+10E6" -> <<"U+1CA6">>
      [] c = "U+10E7" -> <<"U+1CA7">>
      [] c = "U+10E8" -> <<"U+1CA8">>
      [] c = "U+10E9" -> <<"U+1CA9">>
      [] c = "U+10EA" -> <<"U+1CAA">>
      [] c = "U+10EB" -> <<"U+1CAB">>
      [] c = "U+10EC" -> <<"U+1CAC">>
      [] c = "U+10ED" -> <<"U+1CAD">>
      [] c = "U+10EE" -> <<"U+1CAE">>
      [] c = "U+10EF" -> <<"U+1CAF">>
      [] c = "U+10F0" -> <<"U+1CB0">>
      [] c = "U+10F1" -> <<"U+1CB1">>
      [] c = "U+10F2" -> <<"U+1CB2">>
      [] c = "U+10F3" -> <<"U+1CB3">>
      [] c = "U+10F4" -> <<"U+1CB4">>
      [] c = "U+10F5" -> <<"U+1CB5">>
      [] c = "U+10F6" -> <<"U+1CB6">>
      [] c = "U+10F7" -> <<"U+1CB7">>
      [] c = "U+10F8" -> <<"U+1CB8">>
      [] c = "U+10F9" -> <<"U+1CB9">>
      [] c = "U+10FA" -> <<"U+1CBA">>
      [] c = "U+10FD" -> <<"U+1CBD">>
      [] c = "U+10FE" -> <<"U+1CBE">>
      [] c = "U+10FF" -> <<"U+1CBF">>
      [] c = "U+13F8" -> <<"U+13F0">>
      [] c = "U+13F9" -> <<"U+13F1">>
      [] c = "U+13FA" -> <<"U+13F2">>
      [] c = "U+13FB" -> <<"U+13F3">>
      [] c = "U+13FC" -> <<"U+13F4">>
      [] c = "U+13FD" -> <<"U+13F5">>
      [] c = "U+1C80" -> <<"U+0412">>
      [] c = "U+1C81" -> <<"U+0414">>
      [] c = "U+1C82" -> <<"U+041E">>
      [] c = "U+1C83" -> <<"U+0421">>
      [] c = "U+1C84" -> <<"U+0422">>
      [] c = "U+1C85" -> <<"U+0422">>
      [] c = "U+1C86" -> <<"U+042A">>
      [] c = "U+1C87" -> <<"U+0462">>
      [] c = "U+1C88" -> <<"U+A64A">>
      [] c = "U+1D79" -> <<"U+A77D">>
      [] c = "U+1D7D" -> <<"U+2C63">>
      [] c = "U+1D8E" -> <<"U+A7C6">>
      [] c = "U+1E01" -> <<"U+1E00">>
      [] c = "U+1E03" -> <<"U+1E02">>
      [] c = "U+1E05" -> <<"U+1E04">>
      [] c = "U+1E07" -> <<"U+1E06">>
      [] c = "U+1E09" -> <<"U+1E08">>
      [] c = "U+1E0B" -> <<"U+1E0A">>
      [] c = "U+1E0D" -> <<"U+1E0C">>
      [] c = "U+1E0F" -> <<"U+1E0E">>
      [] c = "U+1E11" -> <<"U+1E10">>
      [] c = "U+1E13" -> <<"U+1E12">>
      [] c = "U+1E15" -> <<"U+1E14">>
      [] c = "U+1E17" -> <<"U+1E16">>
      [] c = "U+1E19" -> <<"U+1E18">>
      [] c = "U+1E1B" -> <<"U+1E1A">>
      [] c = "U+1E1D" -> <<"U+1E1C">>
      [] c = "U+1E1F" -> <<"U+1E1E">>
      [] c = "U+1E21" -> <<"U+1E20">>
      [] c = "U+1E23" -> <<"U+1E22">>
      [] c = "U+1E25" -> <<"U+1E24">>
      [] c = "U+1E27" -> <<"U+1E26">>
      [] c = "U+1E29" -> <<"U+1E28">>
      [] c = "U+1E2B" -> <<"U+1E2A">>
      [] c = "U+1E2D" -> <<"U+1E2C">>
      [] c = "U+1E2F" -> <<"U+1E2E">>
      [] c = "U+1E31" -> <<"U+1E30">>
      [] c = "U+1E33" -> <<"U+1E32">>
      [] c = "U+1E35" -> <<"U+1E34">>
      [] c = "U+1E37" -> <<"U+1E36">>
      [] c = "U+1E39" -> <<"U+1E38">>
      [] c = "U+1E3B" -> <<"U+1E3A">>
      [] c = "U+1E3D" -> <<"U+1E3C">>
      [] c = "U+1E3F" -> <<"U+1E3E">>
      [] c = "U+1E41" -> <<"U+1E40">>
      [] c = "U+1E43" -> <<"U+1E42">>
      [] c = "U+1E45" -> <<"U+1E44">>
      [] c = "U+1E47" -> <<"U+1E46">>
      [] c = "U+1E49" -> <<"U+1E48">>
      [] c = "U+1E4B" -> <<"U+1E4A">>
      [] c = "U+1E4D" -> <<"U+1E4C">>
      [] c = "U+1E4F" -> <<"U+1E4E">>
      [] c = "U+1E51" -> <<"U+1E50">>
      [] c = "U+1E53" -> <<"U+1E52">>
      [] c = "U+1E55" -> <<"U+1E54">>
      [] c = "U+1E57" -> <<"U+1E56">>
      [] c = "U+1E59" -> <<"U+1E58">>
      [] c = "U+1E5B" -> <<"U+1E5A">>
      [] c = "U+1E5D" -> <<"U+1E5C">>
      [] c = "U+1E5F" -> <<"U+1E5E">>
      [] c = "U+1E61" -> <<"U+1E60">>
      [] c = "U+1E63" -> <<"U+1E62">>
      [] c = "U+1E65" -> <<"U+1E64">>
      [] c = "U+1E67" -> <<"U+1E66">>
      [] c = "U+1E69" -> <<"U+1E68">>
      [] c = "U+1E6B" -> <<"U+1E6A">>
      [] c = "U+1E6D" -> <<"U+1E6C">>
      [] c = "U+1E6F" -> <<"U+1E6E">>
      [] c = "U+1E71" -> <<"U+1E70">>
      [] c = "U+1E73" -> <<"U+1E72">>
      [] c = "U+1E75" -> <<"U+1E74">>
      [] c = "U+1E77" -> <<"U+1E76">>
      [] c = "U+1E79" -> <<"U+1E78">>
      [] c = "U+1E7B" -> <<"U+1E7A">>
      [] c = "U+1E7D" -> <<"U+1E7C">>
      [] c = "U+1E7F" -> <<"U+1E7E">>
      [] c = "U+1E81" -> <<"U+1E80">>
      [] c = "U+1E83" -> <<"U+1E82">>
      [] c = "U+1E85" -> <<"U+1E84">>
      [] c = "U+1E87" -> <<"U+1E86">>
      [] c = "U+1E89" -> <<"U+1E88">>
      [] c = "U+1E8B" -> <<"U+1E8A">>
      [] c = "U+1E8D" -> <<"U+1E8C">>
      [] c = "U+1E8F" -> <<"U+1E8E">>
      [] c = "U+1E91" -> <<"U+1E90">>
      [] c = "U+1E93" -> <<"U+1E92">>
      [] c = "U+1E95" -> <<"U+1E94">>
      [] c = "U+1E96" -> <<"H","U+0331">>
      [] c = "U+1E97" -> <<"T","U+0308">>
      [] c = "U+1E98" -> <<"W","U+030A">>
      [] c = "U+1E99" -> <<"Y","U+030A">>
      [] c = "U+1E9A" -> <<"A","U+02BE">>
      [] c = "U+1E9B" -> <<"U+1E60">>
      [] c = "U+1EA1" -> <<"U+1EA0">>
      [] c = "U+1EA3" -> <<"U+1EA2">>
      [] c = "U+1EA5" -> <<"U+1EA4">>
      [] c = "U+1EA7" -> <<"U+1EA6">>
      [] c = "U+1EA9" -> <<"U+1EA8">>
      [] c = "U+1EAB" -> <<"U+1EAA">>
      [] c = "U+1EAD" -> <<"U+1EAC">>
      [] c = "U+1EAF" -> <<"U+1EAE">>
      [] c = "U+1EB1" -> <<"U+1EB0">>
      [] c = "U+1EB3" -> <<"U+1EB2">>
      [] c = "U+1EB5" -> <<"U+1EB4">>
      [] c = "U+1EB7" -> <<"U+1EB6">>
      [] c = "U+1EB9" -> <<"U+1EB8">>
      [] c = "U+1EBB" -> <<"U+1EBA">>
      [] c = "U+1EBD" -> <<"U+1EBC">>
      [] c = "U+1EBF" -> <<"U+1EBE">>
      [] c = "U+1EC1" -> <<"U+1EC0">>
      [] c = "U+1EC3" -> <<"U+1EC2">>
      [] c = "U+1EC5" -> <<"U+1EC4">>
      [] c = "U+1EC7" -> <<"U+1EC6">>
      [] c = "U+1EC9" -> <<"U+1EC8">>
      [] c = "U+1ECB" -> <<"U+1ECA">>
      [] c = "U+1ECD" -> <<"U+1ECC">>
      [] c = "U+1ECF" -> <<"U+1ECE">>
      [] c = "U+1ED1" -> <<"U+1ED0">>
      [] c = "U+1ED3" -> <<"U+1ED2">>
      [] c = "U+1ED5" -> <<"U+1ED4">>
      [] c = "U+1ED7" -> <<"U+1ED6">>
      [] c = "U+1ED9" -> <<"U+1ED8">>
      [] c = "U+1EDB" -> <<"U+1EDA">>
      [] c = "U+1EDD" -> <<"U+1EDC">>
      [] c = "U+1EDF" -> <<"U+1EDE">>
      [] c = "U+1EE1" -> <<"U+1EE0">>
      [] c = "U+1EE3" -> <<"U+1EE2">>
      [] c = "U+1EE5" -> <<"U+1EE4">>
      [] c = "U+1EE7" -> <<"U+1EE6">>
      [] c = "U+1EE9" -> <<"U+1EE8">>
      [] c = "U+1EEB" -> <<"U+1EEA">>
      [] c = "U+1EED" -> <<"U+1EEC">>
      [] c = "U+1EEF" -> <<"U+1EEE">>
      [] c = "U+1EF1" -> <<"U+1EF0">>
      [] c = "U+1EF3" -> <<"U+1EF2">>
      [] c = "U+1EF5" -> <<"U+1EF4">>
      [] c = "U+1EF7" -> <<"U+1EF6">>
      [] c = "U+1EF9" -> <<"U+1EF8">>
      [] c = "U+1EFB" -> <<"U+1EFA">>
      [] c = "U+1EFD" -> <<"U+1EFC">>
      [] c = "U+1EFF" -> <<"U+1EFE">>
      [] c = "U+1F00" -> <<"U+1F08">>
      [] c = "U+1F01" -> <<"U+1F09">>
      [] c = "U+1F02" -> <<"U+1F0A">>
      [] c = "U+1F03" -> <<"U+1F0B">>
      [] c = "U+1F04" -> <<"U+1F0C">>
      [] c = "U+1F05" -> <<"U+1F0D">>
      [] c = "U+1F06" -> <<"U+1F0E">>
      [] c = "U+1F07" -> <<"U+1F0F">>
      [] c = "U+1F10" -> <<"U+1F18">>
      [] c = "U+1F11" -> <<"U+1F19">>
      [] c = "U+1F12" -> <<"U+1F1A">>
      [] c = "U+1F13" -> <<"U+1F1B">>
      [] c = "U+1F14" -> <<"U+1F1C">>
      [] c = "U+1F15" -> <<"U+1F1D">>
      [] c = "U+1F20" -> <<"U+1F28">>
      [] c = "U+1F21" -> <<"U+1F29">>
      [] c = "U+1F22" -> <<"U+1F2A">>
      [] c = "U+1F23" -> <<"U+1F2B">>
      [] c = "U+1F24" -> <<"U+1F2C">>
      [] c = "U+1F25" -> <<"U+1F2D">>
      [] c = "U+1F26" -> <<"U+1F2E">>
      [] c = "U+1F27" -> <<"U+1F2F">>
      [] c = "U+1F30" -> <<"U+1F38">>
      [] c = "U+1F31" -> <<"U+1F39">>
      [] c = "U+1F32" -> <<"U+1F3A">>
      [] c = "U+1F33" -> <<"U+1F3B">>
      [] c = "U+1F34" -> <<"U+1F3C">>
      [] c = "U+1F35" -> <<"U+1F3D">>
      [] c = "U+1F36" -> <<"U+1F3E">>
      [] c = "U+1F37" -> <<"U+1F3F">>
      [] c = "U+1F40" -> <<"U+1F48">>
      [] c = "U+1F41" -> <<"U+1F49">>
      [] c = "U+1F42" -> <<"U+1F4A">>
      [] c = "U+1F43" -> <<"U+1F4B">>
      [] c = "U+1F44" -> <<"U+1F4C">>
      [] c = "U+1F45" -> <<"U+1F4D">>
      [] c = "U+1F50" -> <<"U+03A5","U+0313">>
      [] c = "U+1F51" -> <<"U+1F59">>
      [] c = "U+1F52" -> <<"U+03A5","U+0313","U+0300">>
      [] c = "U+1F53" -> <<"U+1F5B">>
      [] c = "U+1F54" -> <<"U+03A5","U+0313","U+0301">>
      [] c = "U+1F55" -> <<"U+1F5D">>
      [] c = "U+1F56" -> <<"U+03A5","U+0313","U+0342">>
      [] c = "U+1F57" -> <<"U+1F5F">>
      [] c = "U+1F60" -> <<"U+1F68">>
      [] c = "U+1F61" -> <<"U+1F69">>
      [] c = "U+1F62" -> <<"U+1F6A">>
      [] c = "U+1F63" -> <<"U+1F6B">>
      [] c = "U+1F64" -> <<"U+1F6C">>
      [] c = "U+1F65" -> <<"U+1F6D">>
      [] c = "U+1F66" -> <<"U+1F6E">>
      [] c = "U+1F67" -> <<"U+1F6F">>
      [] c = "U+1F70" -> <<"U+1FBA">>
      [] c = "U+1F71" -> <<"U+1FBB">>
      [] c = "U+1F72" -> <<"U+1FC8">>
      [] c = "U+1F73" -> <<"U+1FC9">>
      [] c = "U+1F74" -> <<"U+1FCA">>
      [] c = "U+1F75" -> <<"U+1FCB">>
      [] c = "U+1F76" -> <<"U+1FDA">>
      [] c = "U+1F77" -> <<"U+1FDB">>
      [] c = "U+1F78" -> <<"U+1FF8">>
      [] c = "U+1F79" -> <<"U+1FF9">>
      [] c = "U+1F7A" -> <<"U+1FEA">>
      [] c = "U+1F7B" -> <<"U+1FEB">>
      [] c = "U+1F7C" -> <<"U+1FFA">>
      [] c = "U+1F7D" -> <<"U+1FFB">>
      [] c = "U+1F80" -> <<"U+1F08","U+0399">>
      [] c = "U+1F81" -> <<"U+1F09","U+0399">>
      [] c = "U+1F82" -> <<"U+1F0A","U+0399">>
      [] c = "U+1F83" -> <<"U+1F0B","U+0399">>
      [] c = "U+1F84" -> <<"U+1F0C","U+0399">>
      [] c = "U+1F85" -> <<"U+1F0D","U+0399">>
      [] c = "U+1F86" -> <<"U+1F0E","U+0399">>
      [] c = "U+1F87" -> <<"U+1F0F","U+0399">>
      [] c = "U+1F88" -> <<"U+1F08","U+0399">>
      [] c = "U+1F89" -> <<"U+1F09","U+0399">>
      [] c = "U+1F8A" -> <<"U+1F0A","U+0399">>
      [] c = "U+1F8B" -> <<"U+1F0B","U+0399">>
      [] c = "U+1F8C" -> <<"U+1F0C","U+0399">>
      [] c = "U+1F8D" -> <<"U+1F0D","U+0399">>
      [] c = "U+1F8E" -> <<"U+1F0E","U+0399">>
      [] c = "U+1F8F" -> <<"U+1F0F","U+0399">>
      [] c = "U+1F90" -> <<"U+1F28","U+0399">>
      [] c = "U+1F91" -> <<"U+1F29","U+0399">>
      [] c = "U+1F92" -> <<"U+1F2A","U+0399">>
      [] c = "U+1F93" -> <<"U+1F2B","U+0399">>
      [] c = "U+1F94" -> <<"U+1F2C","U+0399">>
      [] c = "U+1F95" -> <<"U+1F2D","U+0399">>
      [] c = "U+1F96" -> <<"U+1F2E","U+0399">>
      [] c = "U+1F97" -> <<"U+1F2F","U+0399">>
      [] c = "U+1F98" -> <<"U+1F28","U+0399">>
      [] c = "U+1F99" -> <<"U+1F29","U+0399">>
      [] c = "U+1F9A" -> <<"U+1F2A","U+0399">>
      [] c = "U+1F9B" -> <<"U+1F2B","U+0399">>
      [] c = "U+1F9C" -> <<"U+1F2C","U+0399">>
      [] c = "U+1F9D" -> <<"U+1F2D","U+0399">>
      [] c = "U+1F9E" -> <<"U+1F2E","U+0399">>
      [] c = "U+1F9F" -> <<"U+1F2F","U+0399">>
      [] c = "U+1FA0" -> <<"U+1F68","U+0399">>
      [] c = "U+1FA1" -> <<"U+1F69","U+0399">>
      [] c = "U+1FA2" -> <<"U+1F6A","U+0399">>
      [] c = "U+1FA3" -> <<"U+1F6B","U+0399">>
      [] c = "U+1FA4" -> <<"U+1F6C","U+0399">>
      [] c = "U+1FA5" -> <<"U+1F6D","U+0399">>
      [] c = "U+1FA6" -> <<"U+1F6E","U+0399">>
      [] c = "U+1FA7" -> <<"U+1F6F","U+0399">>
      [] c = "U+1FA8" -> <<"U+1F68","U+0399">>
      [] c = "U+1FA9" -> <<"U+1F69","U+0399">>
      [] c = "U+1FAA" -> <<"U+1F6A","U+0399">>
      [] c = "U+1FAB" -> <<"U+1F6B","U+0399">>
      [] c = "U+1FAC" -> <<"U+1F6C","U+0399">>
      [] c = "U+1FAD" -> <<"U+1F6D","U+0399">>
      [] c = "U+1FAE" -> <<"U+1F6E","U+0399">>
      [] c = "U+1FAF" -> <<"U+1F6F","U+0399">>
      [] c = "U+1FB0" -> <<"U+1FB8">>
      [] c = "U+1FB1" -> <<"U+1FB9">>
      [] c = "U+1FB2" -> <<"U+1FBA","U+0399">>
      [] c = "U+1FB3" -> <<"U+0391","U+0399">>
      [] c = "U+1FB4" -> <<"U+0386","U+0399">>
      [] c = "U+1FB6" -> <<"U+0391","U+0342">>
      [] c = "U+1FB7" -> <<"U+0391","U+0342","U+0399">>
      [] c = "U+1FBC" -> <<"U+0391","U+0399">>
      [] c = "U+1FBE" -> <<"U+0399">>
      [] c = "U+1FC2" -> <<"U+1FCA","U+0399">>
      [] c = "U+1FC3" -> <<"U+0397","U+0399">>
      [] c = "U+1FC4" -> <<"U+0389","U+0399">>
      [] c = "U+1FC6" -> <<"U+0397","U+0342">>
      [] c = "U+1FC7" -> <<"U+0397","U+0342","U+0399">>
      [] c = "U+1FCC" -> <<"U+0397","U+0399">>
      [] c = "U+1FD0" -> <<"U+1FD8">>
      [] c = "U+1FD1" -> <<"U+1FD9">>
      [] c = "U+1FD2" -> <<"U+0399","U+0308","U+0300">>
      [] c = "U+1FD3" -> <<"U+0399","U+0308","U+0301">>
      [] c = "U+1FD6" -> <<"U+0399","U+0342">>
      [] c = "U+1FD7" -> <<"U+0399","U+0308","U+0342">>
      [] c = "U+1FE0" -> <<"U+1FE8">>
      [] c = "U+1FE1" -> <<"U+1FE9">>
      [] c = "U+1FE2" -> <<"U+03A5","U+0308","U+0300">>
      [] c = "U+1FE3" -> <<"U+03A5","U+0308","U+0301">>
      [] c = "U+1FE4" -> <<"U+03A1","U+0313">>
      [] c = "U+1FE5" -> <<"U+1FEC">>
      [] c = "U+1FE6" -> <<"U+03A5","U+0342">>
      [] c = "U+1FE7" -> <<"U+03A5","U+0308","U+0342">>
      [] c = "U+1FF2" -> <<"U+1FFA","U+0399">>
      [] c = "U+1FF3" -> <<"U+03A9","U+0399">>
      [] c = "U+1FF4" -> <<"U+038F","U+0399">>
      [] c = "U+1FF6" -> <<"U+03A9","U+0342">>
      [] c = "U+1FF7" -> <<"U+03A9","U+0342","U+0399">>
      [] c = "U+1FFC" -> <<"U+03A9","U+0399">>
      [] c = "U+214E" -> <<"U+2132">>
      [] c = "U+2170" -> <<"U+2160">>
      [] c = "U+2171" -> <<"U+2161">>
      [] c = "U+2172" -> <<"U+2162">>
      [] c = "U+2173" -> <<"U+2163">>
      [] c = "U+2174" -> <<"U+2164">>
      [] c = "U+2175" -> <<"U+2165">>
      [] c = "U+2176" -> <<"U+2166">>
      [] c = "U+2177" -> <<"U+2167">>
      [] c = "U+2178" -> <<"U+2168">>
      [] c = "U+2179" -> <<"U+2169">>
      [] c = "U+217A" -> <<"U+216A">>
      [] c = "U+217B" -> <<"U+216B">>
      [] c = "U+217C" -> <<"U+216C">>
      [] c = "U+217D" -> <<"U+216D">>
      [] c = "U+217E" -> <<"U+216E">>
      [] c = "U+217F" -> <<"U+216F">>
      [] c = "U+2184" -> <<"U+2183">>
      [] c = "U+24D0" -> <<"U+24B6">>
      [] c = "U+24D1" -> <<"U+24B7">>
      [] c = "U+24D2" -> <<"U+24B8">>
      [] c = "U+24D3" -> <<"U+24B9">>
      [] c = "U+24D4" -> <<"U+24BA">>
      [] c = "U+24D5" -> <<"U+24BB">>
      [] c = "U+24D6" -> <<"U+24BC">>
      [] c = "U+24D7" -> <<"U+24BD">>
      [] c = "U+24D8" -> <<"U+24BE">>
      [] c = "U+24D9" -> <<"U+24BF">>
      [] c = "U+24DA" -> <<"U+24C0">>
      [] c = "U+24DB" -> <<"U+24C1">>
      [] c = "U+24DC" -> <<"U+24C2">>
      [] c = "U+24DD" -> <<"U+24C3">>
      [] c = "U+24DE" -> <<"U+24C4">>
      [] c = "U+24DF" -> <<"U+24C5">>
      [] c = "U+24E0" -> <<"U+24C6">>
      [] c = "U+24E1" -> <<"U+24C7">>
      [] c = "U+24E2" -> <<"U+24C8">>
      [] c = "U+24E3" -> <<"U+24C9">>
      [] c = "U+24E4" -> <<"U+24CA">>
      [] c = "U+24E5" -> <<"U+24CB">>
      [] c = "U+24E6" -> <<"U+24CC">>
      [] c = "U+24E7" -> <<"U+24CD">>
      [] c = "U+24E8" -> <<"U+24CE">>
      [] c = "U+24E9" -> <<"U+24CF">>
      [] c = "U+2C30" -> <<"U+2C00">>
      [] c = "U+2C31" -> <<"U+2C01">>
      [] c = "U+2C32" -> <<"U+2C02">>
      [] c = "U+2C33" -> <<"U+2C03">>
      [] c = "U+2C34" -> <<"U+2C04">>
      [] c = "U+2C35" -> <<"U+2C05">>
      [] c = "U+2C36" -> <<"U+2C06">>
      [] c = "U+2C37" -> <<"U+2C07">>
      [] c = "U+2C38" -> <<"U+2C08">>
      [] c = "U+2C39" -> <<"U+2C09">>
      [] c = "U+2C3A" -> <<"U+2C0A">>
      [] c = "U+2C3B" -> <<"U+2C0B">>
      [] c = "U+2C3C" -> <<"U+2C0C">>
      [] c = "U+2C3D" -> <<"U+2C0D">>
      [] c = "U+2C3E" -> <<"U+2C0E">>
      [] c = "U+2C3F" -> <<"U+2C0F">>
      [] c = "U+2C40" -> <<"U+2C10">>
      [] c = "U+2C41" -> <<"U+2C11">>
      [] c = "U+2C42" -> <<"U+2C12">>
      [] c = "U+2C43" -> <<"U+2C13">>
      [] c = "U+2C44" -> <<"U+2C14">>
      [] c = "U+2C45" -> <<"U+2C15">>
      [] c = "U+2C46" -> <<"U+2C16">>
      [] c = "U+2C47" -> <<"U+2C17">>
      [] c = "U+2C48" -> <<"U+2C18">>
      [] c = "U+2C49" -> <<"U+2C19">>
      [] c = "U+2C4A" -> <<"U+2C1A">>
      [] c = "U+2C4B" -> <<"U+2C1B">>
      [] c = "U+2C4C" -> <<"U+2C1C">>
      [] c = "U+2C4D" -> <<"U+2C1D">>
      [] c = "U+2C4E" -> <<"U+2C1E">>
      [] c = "U+2C4F" -> <<"U+2C1F">>
      [] c = "U+2C50" -> <<"U+2C20">>
      [] c = "U+2C51" -> <<"U+2C21">>
      [] c = "U+2C52" -> <<"U+2C22">>
      [] c = "U+2C53" -> <<"U+2C23">>
      [] c = "U+2C54" -> <<"U+2C24">>
      [] c = "U+2C55" -> <<"U+2C25">>
      [] c = "U+2C56" -> <<"U+2C26">>
      [] c = "U+2C57" -> <<"U+2C27">>
      [] c = "U+2C58" -> <<"U+2C28">>
      [] c = "U+2C59" -> <<"U+2C29">>
      [] c = "U+2C5A" -> <<"U+2C2A">>
      [] c = "U+2C5B" -> <<"U+2C2B">>
      [] c = "U+2C5C" -> <<"U+2C2C">>
      [] c = "U+2C5D" -> <<"U+2C2D">>
      [] c = "U+2C5E" -> <<"U+2C2E">>
      [] c = "U+2C5F" -> <<"U+2C2F">>
      [] c = "U+2C61" -> <<"U+2C60">>
      [] c = "U+2C65" -> <<"U+023A">>
      [] c = "U+2C66" -> <<"U+023E">>
      [] c = "U+2C68" -> <<"U+2C67">>
      [] c = "U+2C6A" -> <<"U+2C69">>
      [] c = "U+2C6C" -> <<"U+2C6B">>
      [] c = "U+2C73" -> <<"U+2C72">>
      [] c = "U+2C76" -> <<"U+2C75">>
      [] c = "U+2C81" -> <<"U+2C80">>
      [] c = "U+2C83" -> <<"U+2C82">>
      [] c = "U+2C85" -> <<"U+2C84">>
      [] c = "U+2C87" -> <<"U+2C86">>
      [] c = "U+2C89" -> <<"U+2C88">>
      [] c = "U+2C8B" -> <<"U+2C8A">>
      [] c = "U+2C8D" -> <<"U+2C8C">>
      [] c = "U+2C8F" -> <<"U+2C8E">>
      [] c = "U+2C91" -> <<"U+2C90">>
      [] c = "U+2C93" -> <<"U+2C92">>
      [] c = "U+2C95" -> <<"U+2C94">>
      [] c = "U+2C97" -> <<"U+2C96">>
      [] c = "U+2C99" -> <<"U+2C98">>
      [] c = "U+2C9B" -> <<"U+2C9A">>
      [] c = "U+2C9D" -> <<"U+2C9C">>
      [] c = "U+2C9F" -> <<"U+2C9E">>
      [] c = "U+2CA1" -> <<"U+2CA0">>
      [] c = "U+2CA3" -> <<"U+2CA2">>
      [] c = "U+2CA5" -> <<"U+2CA4">>
      [] c = "U+2CA7" -> <<"U+2CA6">>
      [] c = "U+2CA9" -> <<"U+2CA8">>
      [] c = "U+2CAB" -> <<"U+2CAA">>
      [] c = "U+2CAD" -> <<"U+2CAC">>
      [] c = "U+2CAF" -> <<"U+2CAE">>
      [] c = "U+2CB1" -> <<"U+2CB0">>
      [] c = "U+2CB3" -> <<"U+2CB2">>
      [] c = "U+2CB5" -> <<"U+2CB4">>
      [] c = "U+2CB7" -> <<"U+2CB6">>
      [] c = "U+2CB9" -> <<"U+2CB8">>
      [] c = "U+2CBB" -> <<"U+2CBA">>
      [] c = "U+2CBD" -> <<"U+2CBC">>
      [] c = "U+2CBF" -> <<"U+2CBE">>
      [] c = "U+2CC1" -> <<"U+2CC0">>
      [] c = "U+2CC3" -> <<"U+2CC2">>
      [] c = "U+2CC5" -> <<"U+2CC4">>
      [] c = "U+2CC7" -> <<"U+2CC6">>
      [] c = "U+2CC9" -> <<"U+2CC8">>
      [] c = "U+2CCB" -> <<"U+2CCA">>
      [] c = "U+2CCD" -> <<"U+2CCC">>
      [] c = "U+2CCF" -> <<"U+2CCE">>
      [] c = "U+2CD1" -> <<"U+2CD0">>
      [] c = "U+2CD3" -> <<"U+2CD2">>
      [] c = "U+2CD5" -> <<"U+2CD4">>
      [] c = "U+2CD7" -> <<"U+2CD6">>
      [] c = "U+2CD9" -> <<"U+2CD8">>
      [] c = "U+2CDB" -> <<"U+2CDA">>
      [] c = "U+2CDD" -> <<"U+2CDC">>
      [] c = "U+2CDF" -> <<"U+2CDE">>
      [] c = "U+2CE1" -> <<"U+2CE0">>
      [] c = "U+2CE3" -> <<"U+2CE2">>
      [] c = "U+2CEC" -> <<"U+2CEB">>
      [] c = "U+2CEE" -> <<"U+2CED">>
      [] c = "U+2CF3" -> <<"U+2CF2">>
      [] c = "U+2D00" -> <<"U+10A0">>
      [] c = "U+2D01" -> <<"U+10A1">>
      [] c = "U+2D02" -> <<"U+10A2">>
      [] c = "U+2D03" -> <<"U+10A3">>
      [] c = "U+2D04" -> <<"U+10A4">>
      [] c = "U+2D05" -> <<"U+10A5">>
      [] c = "U+2D06" -> <<"U+10A6">>
      [] c = "U+2D07" -> <<"U+10A7">>
      [] c = "U+2D08" -> <<"U+10A8">>
      [] c = "U+2D09" -> <<"U+10A9">>
      [] c = "U+2D0A" -> <<"U+10AA">>
      [] c = "U+2D0B" -> <<"U+10AB">>
      [] c = "U+2D0C" -> <<"U+10AC">>
      [] c = "U+2D0D" -> <<"U+10AD">>
      [] c = "U+2D0E" -> <<"U+10AE">>
      [] c = "U+2D0F" -> <<"U+10AF">>
      [] c = "U+2D10" -> <<"U+10B0">>
      [] c = "U+2D11" -> <<"U+10B1">>
      [] c = "U+2D12" -> <<"U+10B2">>
      [] c = "U+2D13" -> <<"U+10B3">>
      [] c = "U+2D14" -> <<"U+10B4">>
      [] c = "U+2D15" -> <<"U+10B5">>
      [] c = "U+2D16" -> <<"U+10B6">>
      [] c = "U+2D17" -> <<"U+10B7">>
      [] c = "U+2D18" -> <<"U+10B8">>
      [] c = "U+2D19" -> <<"U+10B9">>
      [] c = "U+2D1A" -> <<"U+10BA">>
      [] c = "U+2D1B" -> <<"U+10BB">>
      [] c = "U+2D1C" -> <<"U+10BC">>
      [] c = "U+2D1D" -> <<"U+10BD">>
      [] c = "U+2D1E" -> <<"U+10BE">>
      [] c = "U+2D1F" -> <<"U+10BF">>
      [] c = "U+2D20" -> <<"U+10C0">>
      [] c = "U+2D21" -> <<"U+10C1">>
      [] c = "U+2D22" -> <<"U+10C2">>
      [] c = "U+2D23" -> <<"U+10C3">>
      [] c = "U+2D24" -> <<"U+10C4">>
      [] c = "U+2D25" -> <<"U+10C5">>
      [] c = "U+2D27" -> <<"U+10C7">>
      [] c = "U+2D2D" -> <<"U+10CD">>
      [] c = "U+A641" -> <<"U+A640">>
      [] c = "U+A643" -> <<"U+A642">>
      [] c = "U+A645" -> <<"U+A644">>
      [] c = "U+A647" -> <<"U+A646">>
      [] c = "U+A649" -> <<"U+A648">>
      [] c = "U+A64B" -> <<"U+A64A">>
      [] c = "U+A64D" -> <<"U+A64C">>
      [] c = "U+A64F" -> <<"U+A64E">>
      [] c = "U+A651" -> <<"U+A650">>
      [] c = "U+A653" -> <<"U+A652">>
      [] c = "U+A655" -> <<"U+A654">>
      [] c = "U+A657" -> <<"U+A656">>
      [] c = "U+A659" -> <<"U+A658">>
      [] c = "U+A65B" -> <<"U+A65A">>
      [] c = "U+A65D" -> <<"U+A65C">>
      [] c = "U+A65F" -> <<"U+A65E">>
      [] c = "U+A661" -> <<"U+A660">>
      [] c = "U+A663" -> <<"U+A662">>
      [] c = "U+A665" -> <<"U+A664">>
      [] c = "U+A667" -> <<"U+A666">>
      [] c = "U+A669" -> <<"U+A668">>
      [] c = "U+A66B" -> <<"U+A66A">>
      [] c = "U+A66D" -> <<"U+A66C">>
      [] c = "U+A681" -> <<"U+A680">>
      [] c = "U+A683" -> <<"U+A682">>
      [] c = "U+A685" -> <<"U+A684">>
      [] c = "U+A687" -> <<"U+A686">>
      [] c = "U+A689" -> <<"U+A688">>
      [] c = "U+A68B" -> <<"U+A68A">>
      [] c = "U+A68D" -> <<"U+A68C">>
      [] c = "U+A68F" -> <<"U+A68E">>
      [] c = "U+A691" -> <<"U+A690">>
      [] c = "U+A693" -> <<"U+A692">>
      [] c = "U+A695" -> <<"U+A694">>
      [] c = "U+A697" -> <<"U+A696">>
      [] c = "U+A699" -> <<"U+A698">>
      [] c = "U+A69B" -> <<"U+A69A">>
      [] c = "U+A723" -> <<"U+A722">>
      [] c = "U+A725" -> <<"U+A724">>
      [] c = "U+A727" -> <<"U+A726">>
      [] c = "U+A729" -> <<"U+A728">>
      [] c = "U+A72B" -> <<"U+A72A">>
      [] c = "U+A72D" -> <<"U+A72C">>
      [] c = "U+A72F" -> <<"U+A72E">>
      [] c = "U+A733" -> <<"U+A732">>
      [] c = "U+A735" -> <<"U+A734">>
      [] c = "U+A737" -> <<"U+A736">>
      [] c = "U+A739" -> <<"U+A738">>
      [] c = "U+A73B" -> <<"U+A73A">>
      [] c = "U+A73D" -> <<"U+A73C">>
      [] c = "U+A73F" -> <<"U+A73E">>
      [] c = "U+A741" -> <<"U+A740">>
      [] c = "U+A743" -> <<"U+A742">>
      [] c = "U+A745" -> <<"U+A744">>
      [] c = "U+A747" -> <<"U+A746">>
      [] c = "U+A749" -> <<"U+A748">>
      [] c = "U+A74B" -> <<"U+A74A">>
      [] c = "U+A74D" -> <<"U+A74C">>
      [] c = "U+A74F" -> <<"U+A74E">>
      [] c = "U+A751" -> <<"U+A750">>
      [] c = "U+A753" -> <<"U+A752">>
      [] c = "U+A755" -> <<"U+A754">>
      [] c = "U+A757" -> <<"U+A756">>
      [] c = "U+A759" -> <<"U+A758">>
      [] c = "U+A75B" -> <<"U+A75A">>
      [] c = "U+A75D" -> <<"U+A75C">>
      [] c = "U+A75F" -> <<"U+A75E">>
      [] c = "U+A761" -> <<"U+A760">>
      [] c = "U+A763" -> <<"U+A762">>
      [] c = "U+A765" -> <<"U+A764">>
      [] c = "U+A767" -> <<"U+A766">>
      [] c = "U+A769" -> <<"U+A768">>
      [] c = "U+A76B" -> <<"U+A76A">>
      [] c = "U+A76D" -> <<"U+A76C">>
      [] c = "U+A76F" -> <<"U+A76E">>
      [] c = "U+A77A" -> <<"U+A779">>
      [] c = "U+A77C" -> <<"U+A77B">>
      [] c = "U+A77F" -> <<"U+A77E">>
      [] c = "U+A781" -> <<"U+A780">>
      [] c = "U+A783" -> <<"U+A782">>
      [] c = "U+A785" -> <<"U+A784">>
      [] c = "U+A787" -> <<"U+A786">>
      [] c = "U+A78C" -> <<"U+A78B">>
      [] c = "U+A791" -> <<"U+A790">>
      [] c = "U+A793" -> <<"U+A792">>
      [] c = "U+A794" -> <<"U+A7C4">>
      [] c = "U+A797" -> <<"U+A796">>
      [] c = "U+A799" -> <<"U+A798">>
      [] c = "U+A79B" -> <<"U+A79A">>
      [] c = "U+A79D" -> <<"U+A79C">>
      [] c = "U+A79F" -> <<"U+A79E">>
      [] c = "U+A7A1" -> <<"U+A7A0">>
      [] c = "U+A7A3" -> <<"U+A7A2">>
      [] c = "U+A7A5" -> <<"U+A7A4">>
      [] c = "U+A7A7" -> <<"U+A7A6">>
      [] c = "U+A7A9" -> <<"U+A7A8">>
      [] c = "U+A7B5" -> <<"U+A7B4">>
      [] c = "U+A7B7" -> <<"U+A7B6">>
      [] c = "U+A7B9" -> <<"U+A7B8">>
      [] c = "U+A7BB" -> <<"U+A7BA">>
      [] c = "U+A7BD" -> <<"U+A7BC">>
      [] c = "U+A7BF" -> <<"U+A7BE">>
      [] c = "U+A7C1" -> <<"U+A7C0">>
      [] c = "U+A7C3" -> <<"U+A7C2">>
      [] c = "U+A7C8" -> <<"U+A7C7">>
      [] c = "U+A7CA" -> <<"U+A7C9">>
      [] c = "U+A7D1" -> <<"U+A7D0">>
      [] c = "U+A7D7" -> <<"U+A7D6">>
      [] c = "U+A7D9" -> <<"U+A7D8">>
      [] c = "U+A7F6" -> <<"U+A7F5">>
      [] c = "U+AB53" -> <<"U+A7B3">>
      [] c = "U+AB70" -> <<"U+13A0">>
      [] c = "U+AB71" -> <<"U+13A1">>
      [] c = "U+AB72" -> <<"U+13A2">>
      [] c = "U+AB73" -> <<"U+13A3">>
      [] c = "U+AB74" -> <<"U+13A4">>
      [] c = "U+AB75" -> <<"U+13A5">>
      [] c = "U+AB76" -> <<"U+13A6">>
      [] c = "U+AB77" -> <<"U+13A7">>
      [] c = "U+AB78" -> <<"U+13A8">>
      [] c = "U+AB79" -> <<"U+13A9">>
      [] c = "U+AB7A" -> <<"U+13AA">>
      [] c = "U+AB7B" -> <<"U+13AB">>
      [] c = "U+AB7C" -> <<"U+13AC">>
      [] c = "U+AB7D" -> <<"U+13AD">>
      [] c = "U+AB7E" -> <<"U+13AE">>
      [] c = "U+AB7F" -> <<"U+13AF">>
      [] c = "U+AB80" -> <<"U+13B0">>
      [] c = "U+AB81" -> <<"U+13B1">>
      [] c = "U+AB82" -> <<"U+13B2">>
      [] c = "U+AB83" -> <<"U+13B3">>
      [] c = "U+AB84" -> <<"U+13B4">>
      [] c = "U+AB85" -> <<"U+13B5">>
      [] c = "U+AB86" -> <<"U+13B6">>
      [] c = "U+AB87" -> <<"U+13B7">>
      [] c = "U+AB88" -> <<"U+13B8">>
      [] c = "U+AB89" -> <<"U+13B9">>
      [] c = "U+AB8A" -> <<"U+13BA">>
      [] c = "U+AB8B" -> <<"U+13BB">>
      [] c = "U+AB8C" -> <<"U+13BC">>
      [] c = "U+AB8D" -> <<"U+13BD">>
      [] c = "U+AB8E" -> <<"U+13BE">>
      [] c = "U+AB8F" -> <<"U+13BF">>
      [] c = "U+AB90" -> <<"U+13C0">>
      [] c = "U+AB91" -> <<"U+13C1">>
      [] c = "U+AB92" -> <<"U+13C2">>
      [] c = "U+AB93" -> <<"U+13C3">>
      [] c = "U+AB94" -> <<"U+13C4">>
      [] c = "U+AB95" -> <<"U+13C5">>
      [] c = "U+AB96" -> <<"U+13C6">>
      [] c = "U+AB97" -> <<"U+13C7">>
      [] c = "U+AB98" -> <<"U+13C8">>
      [] c = "U+AB99" -> <<"U+13C9">>
      [] c = "U+AB9A" -> <<"U+13CA">>
      [] c = "U+AB9B" -> <<"U+13CB">>
      [] c = "U+AB9C" -> <<"U+13CC">>
      [] c = "U+AB9D" -> <<"U+13CD">>
      [] c = "U+AB9E" -> <<"U+13CE">>
      [] c = "U+AB9F" -> <<"U+13CF">>
      [] c = "U+ABA0" -> <<"U+13D0">>
      [] c = "U+ABA1" -> <<"U+13D1">>
      [] c = "U+ABA2" -> <<"U+13D2">>
      [] c = "U+ABA3" -> <<"U+13D3">>
      [] c = "U+ABA4" -> <<"U+13D4">>
      [] c = "U+ABA5" -> <<"U+13D5">>
      [] c = "U+ABA6" -> <<"U+13D6">>
      [] c = "U+ABA7" -> <<"U+13D7">>
      [] c = "U+ABA8" -> <<"U+13D8">>
      [] c = "U+ABA9" -> <<"U+13D9">>
      [] c = "U+ABAA" -> <<"U+13DA">>
      [] c = "U+ABAB" -> <<"U+13DB">>
      [] c = "U+ABAC" -> <<"U+13DC">>
      [] c = "U+ABAD" -> <<"U+13DD">>
      [] c = "U+ABAE" -> <<"U+13DE">>
      [] c = "U+ABAF" -> <<"U+13DF">>
      [] c = "U+ABB0" -> <<"U+13E0">>
      [] c = "U+ABB1" -> <<"U+13E1">>
      [] c = "U+ABB2" -> <<"U+13E2">>
      [] c = "U+ABB3" -> <<"U+13E3">>
      [] c = "U+ABB4" -> <<"U+13E4">>
      [] c = "U+ABB5" -> <<"U+13E5">>
      [] c = "U+ABB6" -> <<"U+13E6">>
      [] c = "U+ABB7" -> <<"U+13E7">>
      [] c = "U+ABB8" -> <<"U+13E8">>
      [] c = "U+ABB9" -> <<"U+13E9">>
      [] c = "U+ABBA" -> <<"U+13EA">>
      [] c = "U+ABBB" -> <<"U+13EB">>
      [] c = "U+ABBC" -> <<"U+13EC">>
      [] c = "U+ABBD" -> <<"U+13ED">>
      [] c = "U+ABBE" -> <<"U+13EE">>
      [] c = "U+ABBF" -> <<"U+13EF">>
      [] c = "U+FB00" -> <<"F","F">>
      [] c = "U+FB01" -> <<"F","I">>
      [] c = "U+FB02" -> <<"F","L">>
      [] c = "U+FB03" -> <<"F","F","I">>
      [] c = "U+FB04" -> <<"F","F","L">>
      [] c = "U+FB05" -> <<"S","T">>
      [] c = "U+FB06" -> <<"S","T">>
      [] c = "U+FB13" -> <<"U+0544","U+0546">>
      [] c = "U+FB14" -> <<"U+0544","U+0535">>
      [] c = "U+FB15" -> <<"U+0544","U+053B">>
      [] c = "U+FB16" -> <<"U+054E","U+0546">>
      [] c = "U+FB17" -> <<"U+0544","U+053D">>
      [] c = "U+FF41" -> <<"U+FF21">>
      [] c = "U+FF42" -> <<"U+FF22">>
      [] c = "U+FF43" -> <<"U+FF23">>
      [] c = "U+FF44" -> <<"U+FF24">>
      [] c = "U+FF45" -> <<"U+FF25">>
      [] c = "U+FF46" -> <<"U+FF26">>
      [] c = "U+FF47" -> <<"U+FF27">>
      [] c = "U+FF48" -> <<"U+FF28">>
      [] c = "U+FF49" -> <<"U+FF29">>
      [] c = "U+FF4A" -> <<"U+FF2A">>
      [] c = "U+FF4B" -> <<"U+FF2B">>
      [] c = "U+FF4C" -> <<"U+FF2C">>
      [] c = "U+FF4D" -> <<"U+FF2D">>
      [] c = "U+FF4E" -> <<"U+FF2E">>
      [] c = "U+FF4F" -> <<"U+FF2F">>
      [] c = "U+FF50" -> <<"U+FF30">>
      [] c = "U+FF51" -> <<"U+FF31">>
      [] c = "U+FF52" -> <<"U+FF32">>
      [] c = "U+FF53" -> <<"U+FF33">>
      [] c = "U+FF54" -> <<"U+FF34">>
      [] c = "U+FF55" -> <<"U+FF35">>
      [] c = "U+FF56" -> <<"U+FF36">>
      [] c = "U+FF57" -> <<"U+FF37">>
      [] c = "U+FF58" -> <<"U+FF38">>
      [] c = "U+FF59" -> <<"U+FF39">>
      [] c = "U+FF5A" -> <<"U+FF3A">>
      [] c = "U+10428" -> <<"U+10400">>
      [] c = "U+10429" -> <<"U+10401">>
      [] c = "U+1042A" -> <<"U+10402">>
      [] c = "U+1042B" -> <<"U+10403">>
      [] c = "U+1042C" -> <<"U+10404">>
      [] c = "U+1042D" -> <<"U+10405">>
      [] c = "U+1042E" -> <<"U+10406">>
      [] c = "U+1042F" -> <<"U+10407">>
      [] c = "U+10430" -> <<"U+10408">>
      [] c = "U+10431" -> <<"U+10409">>
      [] c = "U+10432" -> <<"U+1040A">>
      [] c = "U+10433" -> <<"U+1040B">>
      [] c = "U+10434" -> <<"U+1040C">>
      [] c = "U+10435" -> <<"U+1040D">>
      [] c = "U+10436" -> <<"U+1040E">>
      [] c = "U+10437" -> <<"U+1040F">>
      [] c = "U+10438" -> <<"U+10410">>
      [] c = "U+10439" -> <<"U+10411">>
      [] c = "U+1043A" -> <<"U+10412">>
      [] c = "U+1043B" -> <<"U+10413">>
      [] c = "U+1043C" -> <<"U+10414">>
      [] c = "U+1043D" -> <<"U+10415">>
      [] c = "U+1043E" -> <<"U+10416">>
      [] c = "U+1043F" -> <<"U+10417">>
      [] c = "U+10440" -> <<"U+10418">>
      [] c = "U+10441" -> <<"U+10419">>
      [] c = "U+10442" -> <<"U+1041A">>
      [] c = "U+10443" -> <<"U+1041B">>
      [] c = "U+10444" -> <<"U+1041C">>
      [] c = "U+10445" -> <<"U+1041D">>
      [] c = "U+10446" -> <<"U+1041E">>
      [] c = "U+10447" -> <<"U+1041F">>
      [] c = "U+10448" -> <<"U+10420">>
      [] c = "U+10449" -> <<"U+10421">>
      [] c = "U+1044A" -> <<"U+10422">>
      [] c = "U+1044B" -> <<"U+10423">>
      [] c = "U+1044C" -> <<"U+10424">>
      [] c = "U+1044D" -> <<"U+10425">>
      [] c = "U+1044E" -> <<"U+10426">>
      [] c = "U+1044F" -> <<"U+10427">>
      [] c = "U+104D8" -> <<"U+104B0">>
      [] c = "U+104D9" -> <<"U+104B1">>
      [] c = "U+104DA" -> <<"U+104B2">>
      [] c = "U+104DB" -> <<"U+104B3">>
      [] c = "U+104DC" -> <<"U+104B4">>
      [] c = "U+104DD" -> <<"U+104B5">>
      [] c = "U+104DE" -> <<"U+104B6">>
      [] c = "U+104DF" -> <<"U+104B7">>
      [] c = "U+104E0" -> <<"U+104B8">>
      [] c = "U+104E1" -> <<"U+104B9">>
      [] c = "U+104E2" -> <<"U+104BA">>
      [] c = "U+104E3" -> <<"U+104BB">>
      [] c = "U+104E4" -> <<"U+104BC">>
      [] c = "U+104E5" -> <<"U+104BD">>
      [] c = "U+104E6" -> <<"U+104BE">>
      [] c = "U+104E7" -> <<"U+104BF">>
      [] c = "U+104E8" -> <<"U+104C0">>
      [] c = "U+104E9" -> <<"U+104C1">>
      [] c = "U+104EA" -> <<"U+104C2">>
      [] c = "U+104EB" -> <<"U+104C3">>
      [] c = "U+104EC" -> <<"U+104C4">>
      [] c = "U+104ED" -> <<"U+104C5">>
      [] c = "U+104EE" -> <<"U+104C6">>
      [] c = "U+104EF" -> <<"U+104C7">>
      [] c = "U+104F0" -> <<"U+104C8">>
      [] c = "U+104F1" -> <<"U+104C9">>
      [] c = "U+104F2" -> <<"U+104CA">>
      [] c = "U+104F3" -> <<"U+104CB">>
      [] c = "U+104F4" -> <<"U+104CC">>
      [] c = "U+104F5" -> <<"U+104CD">>
      [] c = "U+104F6" -> <<"U+104CE">>
      [] c = "U+104F7" -> <<"U+104CF">>
      [] c = "U+104F8" -> <<"U+104D0">>
      [] c = "U+104F9" -> <<"U+104D1">>
      [] c = "U+104FA" -> <<"U+104D2">>
      [] c = "U+104FB" -> <<"U+104D3">>
      [] c = "U+10597" -> <<"U+10570">>
      [] c = "U+10598" -> <<"U+10571">>
      [] c = "U+10599" -> <<"U+10572">>
      [] c = "U+1059A" -> <<"U+10573">>
      [] c = "U+1059B" -> <<"U+10574">>
      [] c = "U+1059C" -> <<"U+10575">>
      [] c = "U+1059D" -> <<"U+10576">>
      [] c = "U+1059E" -> <<"U+10577">>
      [] c = "U+1059F" -> <<"U+10578">>
      [] c = "U+105A0" -> <<"U+10579">>
      [] c = "U+105A1" -> <<"U+1057A">>
      [] c = "U+105A3" -> <<"U+1057C">>
      [] c = "U+105A4" -> <<"U+1057D">>
      [] c = "U+105A5" -> <<"U+1057E">>
      [] c = "U+105A6" -> <<"U+1057F">>
      [] c = "U+105A7" -> <<"U+10580">>
      [] c = "U+105A8" -> <<"U+10581">>
      [] c = "U+105A9" -> <<"U+10582">>
      [] c = "U+105AA" -> <<"U+10583">>
      [] c = "U+105AB" -> <<"U+10584">>
      [] c = "U+105AC" -> <<"U+10585">>
      [] c = "U+105AD" -> <<"U+10586">>
      [] c = "U+105AE" -> <<"U+10587">>
      [] c = "U+105AF" -> <<"U+10588">>
      [] c = "U+105B0" -> <<"U+10589">>
      [] c = "U+105B1" -> <<"U+1058A">>
      [] c = "U+105B3" -> <<"U+1058C">>
      [] c = "U+105B4" -> <<"U+1058D">>
      [] c = "U+105B5" -> <<"U+1058E">>
      [] c = "U+105B6" -> <<"U+1058F">>
      [] c = "U+105B7" -> <<"U+10590">>
      [] c = "U+105B8" -> <<"U+10591">>
      [] c = "U+105B9" -> <<"U+10592">>
      [] c = "U+105BB" -> <<"U+10594">>
      [] c = "U+105BC" -> <<"U+10595">>
      [] c = "U+10CC0" -> <<"U+10C80">>
      [] c = "U+10CC1" -> <<"U+10C81">>
      [] c = "U+10CC2" -> <<"U+10C82">>
      [] c = "U+10CC3" -> <<"U+10C83">>
      [] c = "U+10CC4" -> <<"U+10C84">>
      [] c = "U+10CC5" -> <<"U+10C85">>
      [] c = "U+10CC6" -> <<"U+10C86">>
      [] c = "U+10CC7" -> <<"U+10C87">>
      [] c = "U+10CC8" -> <<"U+10C88">>
      [] c = "U+10CC9" -> <<"U+10C89">>
      [] c = "U+10CCA" -> <<"U+10C8A">>
      [] c = "U+10CCB" -> <<"U+10C8B">>
      [] c = "U+10CCC" -> <<"U+10C8C">>
      [] c = "U+10CCD" -> <<"U+10C8D">>
      [] c = "U+10CCE" -> <<"U+10C8E">>
      [] c = "U+10CCF" -> <<"U+10C8F">>
      [] c = "U+10CD0" -> <<"U+10C90">>
      [] c = "U+10CD1" -> <<"U+10C91">>
      [] c = "U+10CD2" -> <<"U+10C92">>
      [] c = "U+10CD3" -> <<"U+10C93">>
      [] c = "U+10CD4" -> <<"U+10C94">>
      [] c = "U+10CD5" -> <<"U+10C95">>
      [] c = "U+10CD6" -> <<"U+10C96">>
      [] c = "U+10CD7" -> <<"U+10C97">>
      [] c = "U+10CD8" -> <<"U+10C98">>
      [] c = "U+10CD9" -> <<"U+10C99">>
      [] c = "U+10CDA" -> <<"U+10C9A">>
      [] c = "U+10CDB" -> <<"U+10C9B">>
      [] c = "U+10CDC" -> <<"U+10C9C">>
      [] c = "U+10CDD" -> <<"U+10C9D">>
      [] c = "U+10CDE" -> <<"U+10C9E">>
      [] c = "U+10CDF" -> <<"U+10C9F">>
      [] c = "U+10CE0" -> <<"U+10CA0">>
      [] c = "U+10CE1" -> <<"U+10CA1">>
      [] c = "U+10CE2" -> <<"U+10CA2">>
      [] c = "U+10CE3" -> <<"U+10CA3">>
      [] c = "U+10CE4" -> <<"U+10CA4">>
      [] c = "U+10CE5" -> <<"U+10CA5">>
      [] c = "U+10CE6" -> <<"U+10CA6">>
      [] c = "U+10CE7" -> <<"U+10CA7">>
      [] c = "U+10CE8" -> <<"U+10CA8">>
      [] c = "U+10CE9" -> <<"U+10CA9">>
      [] c = "U+10CEA" -> <<"U+10CAA">>
      [] c = "U+10CEB" -> <<"U+10CAB">>
      [] c = "U+10CEC" -> <<"U+10CAC">>
      [] c = "U+10CED" -> <<"U+10CAD">>
      [] c = "U+10CEE" -> <<"U+10CAE">>
      [] c = "U+10CEF" -> <<"U+10CAF">>
      [] c = "U+10CF0" -> <<"U+10CB0">>
      [] c = "U+10CF1" -> <<"U+10CB1">>
      [] c = "U+10CF2" -> <<"U+10CB2">>
      [] c = "U+118C0" -> <<"U+118A0">>
      [] c = "U+118C1" -> <<"U+118A1">>
      [] c = "U+118C2" -> <<"U+118A2">>
      [] c = "U+118C3" -> <<"U+118A3">>
      [] c = "U+118C4" -> <<"U+118A4">>
      [] c = "U+118C5" -> <<"U+118A5">>
      [] c = "U+118C6" -> <<"U+118A6">>
      [] c = "U+118C7" -> <<"U+118A7">>
      [] c = "U+118C8" -> <<"U+118A8">>
      [] c = "U+118C9" -> <<"U+118A9">>
      [] c = "U+118CA" -> <<"U+118AA">>
      [] c = "U+118CB" -> <<"U+118AB">>
      [] c = "U+118CC" -> <<"U+118AC">>
      [] c = "U+118CD" -> <<"U+118AD">>
      [] c = "U+118CE" -> <<"U+118AE">>
      [] c = "U+118CF" -> <<"U+118AF">>
      [] c = "U+118D0" -> <<"U+118B0">>
      [] c = "U+118D1" -> <<"U+118B1">>
      [] c = "U+118D2" -> <<"U+118B2">>
      [] c = "U+118D3" -> <<"U+118B3">>
      [] c = "U+118D4" -> <<"U+118B4">>
      [] c = "U+118D5" -> <<"U+118B5">>
      [] c = "U+118D6" -> <<"U+118B6">>
      [] c = "U+118D7" -> <<"U+118B7">>
      [] c = "U+118D8" -> <<"U+118B8">>
      [] c = "U+118D9" -> <<"U+118B9">>
      [] c = "U+118DA" -> <<"U+118BA">>
      [] c = "U+118DB" -> <<"U+118BB">>
      [] c = "U+118DC" -> <<"U+118BC">>
      [] c = "U+118DD" -> <<"U+118BD">>
      [] c = "U+118DE" -> <<"U+118BE">>
      [] c = "U+118DF" -> <<"U+118BF">>
      [] c = "U+16E60" -> <<"U+16E40">>
      [] c = "U+16E61" -> <<"U+16E41">>
      [] c = "U+16E62" -> <<"U+16E42">>
      [] c = "U+16E63" -> <<"U+16E43">>
      [] c = "U+16E64" -> <<"U+16E44">>
      [] c = "U+16E65" -> <<"U+16E45">>
      [] c = "U+16E66" -> <<"U+16E46">>
      [] c = "U+16E67" -> <<"U+16E47">>
      [] c = "U+16E68" -> <<"U+16E48">>
      [] c = "U+16E69" -> <<"U+16E49">>
      [] c = "U+16E6A" -> <<"U+16E4A">>
      [] c = "U+16E6B" -> <<"U+16E4B">>
      [] c = "U+16E6C" -> <<"U+16E4C">>
      [] c = "U+16E6D" -> <<"U+16E4D">>
      [] c = "U+16E6E" -> <<"U+16E4E">>
      [] c = "U+16E6F" -> <<"U+16E4F">>
      [] c = "U+16E70" -> <<"U+16E50">>
      [] c = "U+16E71" -> <<"U+16E51">>
      [] c = "U+16E72" -> <<"U+16E52">>
      [] c = "U+16E73" -> <<"U+16E53">>
      [] c = "U+16E74" -> <<"U+16E54">>
      [] c = "U+16E75" -> <<"U+16E55">>
      [] c = "U+16E76" -> <<"U+16E56">>
      [] c = "U+16E77" -> <<"U+16E57">>
      [] c = "U+16E78" -> <<"U+16E58">>
      [] c = "U+16E79" -> <<"U+16E59">>
      [] c = "U+16E7A" -> <<"U+16E5A">>
      [] c = "U+16E7B" -> <<"U+16E5B">>
      [] c = "U+16E7C" -> <<"U+16E5C">>
      [] c = "U+16E7D" -> <<"U+16E5D">>
      [] c = "U+16E7E" -> <<"U+16E5E">>
      [] c = "U+16E7F" -> <<"U+16E5F">>
      [] c = "U+1E922" -> <<"U+1E900">>
      [] c = "U+1E923" -> <<"U+1E901">>
      [] c = "U+1E924" -> <<"U+1E902">>
      [] c = "U+1E925" -> <<"U+1E903">>
      [] c = "U+1E926" -> <<"U+1E904">>
      [] c = "U+1E927" -> <<"U+1E905">>
      [] c = "U+1E928" -> <<"U+1E906">>
      [] c = "U+1E929" -> <<"U+1E907">>
      [] c = "U+1E92A" -> <<"U+1E908">>
      [] c = "U+1E92B" -> <<"U+1E909">>
      [] c = "U+1E92C" -> <<"U+1E90A">>
      [] c = "U+1E92D" -> <<"U+1E90B">>
      [] c = "U+1E92E" -> <<"U+1E90C">>
      [] c = "U+1E92F" -> <<"U+1E90D">>
      [] c = "U+1E930" -> <<"U+1E90E">>
      [] c = "U+1E931" -> <<"U+1E90F">>
      [] c = "U+1E932" -> <<"U+1E910">>
      [] c = "U+1E933" -> <<"U+1E911">>
      [] c = "U+1E934" -> <<"U+1E912">>
      [] c = "U+1E935" -> <<"U+1E913">>
      [] c = "U+1E936" -> <<"U+1E914">>
      [] c = "U+1E937" -> <<"U+1E915">>
      [] c = "U+1E938" -> <<"U+1E916">>
      [] c = "U+1E939" -> <<"U+1E917">>
      [] c = "U+1E93A" -> <<"U+1E918">>
      [] c = "U+1E93B" -> <<"U+1E919">>
      [] c = "U+1E93C" -> <<"U+1E91A">>
      [] c = "U+1E93D" -> <<"U+1E91B">>
      [] c = "U+1E93E" -> <<"U+1E91C">>
      [] c = "U+1E93F" -> <<"U+1E91D">>
      [] c = "U+1E940" -> <<"U+1E91E">>
      [] c = "U+1E941" -> <<"U+1E91F">>
      [] c = "U+1E942" -> <<"U+1E920">>
      [] c = "U+1E943" -> <<"U+1E921">>
      [] OTHER -> <<c>>

\* str.upper() of one character, as a str: an ASCII character that is not a
\* lower-case letter is left as it is
UpperChar(c) ==
    IF c \in DOMAIN ToUpper THEN <<ToUpper[c]>>
    ELSE IF Len(c) = 1 THEN <<c>>
    ELSE UpperNonAscii(c)

\* str.upper(): the upper-cased characters, concatenated
RECURSIVE Upper(_)
Upper(s) == IF s = <<>> THEN <<>> ELSE UpperChar(Head(s)) \o Upper(Tail(s))

\* the suffix of f"{stock_name.upper()}.NS"
DotNS == <<".","N","S">>

(***************************************************************************)
(* COMMON_STOCKS, in dictionary order, as <<key, value>> pairs             *)
(***************************************************************************)
COMMON_STOCKS ==
    << << <<"N","V","I","D","I","A">>,         <<"N","V","D","A">> >>,
       << <<"A","P","P","L","E">>,             <<"A","A","P","L">> >>,
       << <<"G","O","O","G","L","E">>,         <<"G","O","O","G","L">> >>,
       << <<"M","I","C","R","O","S","O","F","T">>, <<"M","S","F","T">> >>,
       << <<"T","E","S","L","A">>,             <<"T","S","L","A">> >>,
       << <<"T","C","S">>,                     <<"T","C","S">> \o DotNS >>,
       << <<"R","E","L","I","A","N","C","E">>, <<"R","E","L","I","A","N","C","E">> \o DotNS >>,
       << <<"I","N","F","O","S","Y","S">>,     <<"I","N","F","Y">> \o DotNS >>,
       << <<"W","I","P","R","O">>,             <<"W","I","P","R","O">> \o DotNS >>,
       << <<"H","D","F","C">>,                 <<"H","D","F","C","B","A","N","K">> \o DotNS >> >>

COMMON_STOCKS_keys   == {COMMON_STOCKS[i][1] : i \in 1..Len(COMMON_STOCKS)}
COMMON_STOCKS_values == {COMMON_STOCKS[i][2] : i \in 1..Len(COMMON_STOCKS)}

\* COMMON_STOCKS[k]
COMMON_STOCKS_get(k) ==
    COMMON_STOCKS[CHOOSE i \in 1..Len(COMMON_STOCKS) : COMMON_STOCKS[i][1] = k][2]

(***************************************************************************)
(* Inputs of the model                                                     *)
(***************************************************************************)
T_empty   == <<>>
T_tcs     == <<"t","c","s">>
T_Tcs_ns  == <<"T","c","s",".","n","U+017F">>
T_ZZZNOPE == <<"Z","Z","Z","N","O","P","E">>

\* what the user may have typed into a st.text_input
Texts == {T_empty, T_tcs, T_Tcs_ns, T_ZZZNOPE}

\* the 'symbol' field the provider may put into Ticker.info
InfoSymbols == {T_ZZZNOPE}

\* the options of the two selectboxes of main()
AnalysisTypes == {"Comprehensive Analysis", "Technical Analysis", "Fundamental Analysis",
                  "News Analysis", "Sentiment Analysis"}
DateRanges    == {"1 Month", "3 Months", "6 Months", "1 Year", "5 Years"}

\* values datetime.now() may return
Timestamps == 1..MaxTime

\* the answers of a collaborator: those in S when the code asks it, and a
\* placeholder that nothing reads when the code does not reach the call
Asked(reached, S, placeholder) == IF reached THEN S ELSE {placeholder}

(***************************************************************************)
(* The market-data provider (yfinance), an external collaborator.          *)
(* Reading Ticker(query).info either raises, or gives a dict without a     *)
(* 'symbol' key (symbol = None), or a dict with one.                       *)
(***************************************************************************)
InfoResponses(symbols) ==
    {[raises |-> TRUE,  symbol |-> None], [raises |-> FALSE, symbol |-> None]}
    \cup {[raises |-> FALSE, symbol |-> s] : s \in symbols}

\* 'symbol' in info, for a read of .info that returned
HasSymbol(r) == ~r.raises /\ r.symbol # None

(***************************************************************************)
(* get_symbol_from_name(stock_name), given the provider's answers r3 (to   *)
(* the '.NS' probe) and r4 (to the raw text).  The result is the returned  *)
(* value, the provider reads made (in order), whether st.error was shown   *)
(* and whether an exception left the function.                             *)
(***************************************************************************)
\* variant: the '.NS' probe is not wrapped in its own try/except, so an error
\* of the probe reaches the outer handler
get_symbol_from_name_probe_unguarded(stock_name, r3, r4) ==
    LET stock_upper == Upper(stock_name)
        indian_symbol == stock_upper \o DotNS
        call3 == [query |-> indian_symbol, response |-> r3]
        call4 == [query |-> stock_name, response |-> r4]
    IN  IF stock_upper \in COMMON_STOCKS_values
        THEN [ret |-> stock_upper, calls |-> <<>>, st_error |-> FALSE, raises |-> FALSE]
        ELSE IF stock_upper \in COMMON_STOCKS_keys
        THEN [ret |-> COMMON_STOCKS_get(stock_upper), calls |-> <<>>,
              st_error |-> FALSE, raises |-> FALSE]
        ELSE IF r3.raises
        THEN [ret |-> None, calls |-> <<call3>>, st_error |-> TRUE, raises |-> FALSE]
        ELSE IF HasSymbol(r3)
        THEN [ret |-> indian_symbol, calls |-> <<call3>>, st_error |-> FALSE, raises |-> FALSE]
        ELSE IF r4.raises
        THEN [ret |-> None, calls |-> <<call3, call4>>, st_error |-> TRUE, raises |-> FALSE]
        ELSE IF HasSymbol(r4)
        THEN [ret |-> r4.symbol, calls |-> <<call3, call4>>, st_error |-> FALSE, raises |-> FALSE]
        ELSE [ret |-> None, calls |-> <<call3, call4>>, st_error |-> TRUE, raises |-> FALSE]

get_symbol_from_name(stock_name, r3, r4) ==
    LET stock_upper == Upper(stock_name)
        indian_symbol == stock_upper \o DotNS
        call3 == [query |-> indian_symbol, response |-> r3]
        call4 == [query |-> stock_name, response |-> r4]
    IN  \* first check if it's already a valid symbol
        IF stock_upper \in COMMON_STOCKS_values
        THEN [ret |-> stock_upper, calls |-> <<>>, st_error |-> FALSE, raises |-> FALSE]
        \* check if it's in the common stocks dictionary
        ELSE IF stock_upper \in COMMON_STOCKS_keys
        THEN [ret |-> COMMON_STOCKS_get(stock_upper), calls |-> <<>>,
              st_error |-> FALSE, raises |-> FALSE]
        \* inner try: the '.NS' probe; `except: pass` swallows its error
        ELSE IF HasSymbol(r3)
        THEN [ret |-> indian_symbol, calls |-> <<call3>>, st_error |-> FALSE, raises |-> FALSE]
        \* US market: an error here reaches the outer `except Exception`
        ELSE IF r4.raises
        THEN [ret |-> None, calls |-> <<call3, call4>>, st_error |-> TRUE, raises |-> FALSE]
        ELSE IF HasSymbol(r4)
        THEN [ret |-> r4.symbol, calls |-> <<call3, call4>>, st_error |-> FALSE, raises |-> FALSE]
        ELSE [ret |-> None, calls |-> <<call3, call4>>, st_error |-> TRUE, raises |-> FALSE]

\* the resolver was not called in this run of the script
NoResolve == [ret |-> None, calls |-> <<>>, st_error |-> FALSE, raises |-> FALSE]

(***************************************************************************)
(* initialize_agents(): env_ok says whether the three Agent(...)           *)
(* constructions succeed.  ret is the returned value: True, False, or      *)
(* None when the function falls off its end.                               *)
(***************************************************************************)
\* variant: an already initialized session reports success
initialize_agents_returns_true(initialized, env_ok) ==
    IF ~initialized
    THEN IF env_ok THEN [ret |-> "True", initialized |-> TRUE]
                   ELSE [ret |-> "False", initialized |-> initialized]
    ELSE [ret |-> "True", initialized |-> initialized]

initialize_agents(initialized, env_ok) ==
    IF ~initialized
    THEN IF env_ok THEN [ret |-> "True", initialized |-> TRUE]
                   ELSE [ret |-> "False", initialized |-> initialized]
    ELSE [ret |-> "None", initialized |-> initialized]

(***************************************************************************)
(* get_stock_data(symbol).                                                 *)
(*                                                                         *)
(* `stock.info = None` comes first, and what it does is decided by how the *)
(* installed yfinance declares Ticker.info:                                *)
(*   "readonly_property"   a property without a setter (the declaration of *)
(*                         yfinance): the assignment raises AttributeError *)
(*   "plain_attribute"     an ordinary attribute: the assignment stores    *)
(*                         None and `info = stock.info` reads it back      *)
(*   "refreshing_property" a property whose setter drops the cached value, *)
(*                         so that the read asks the provider again        *)
(*                                                                         *)
(* env is what the provider does when it is asked:                         *)
(*   "ok"             info with every displayed field, and a history       *)
(*   "missing_metric" info without one of the fields display_metrics       *)
(*                    formats, and a history                               *)
(*   "empty_info"     an empty info dict, and a history                    *)
(*   "info_error"     the read of .info raises                             *)
(*   "history_error"  stock.history(...) raises                            *)
(*                                                                         *)
(* The result is the returned pair, the period asked of stock.history      *)
(* ("-" when no history request was sent) and whether st.error was shown.  *)
(***************************************************************************)
InfoAttrKinds == {"readonly_property", "plain_attribute", "refreshing_property"}

FetchOutcomes == {"ok", "missing_metric", "empty_info", "info_error", "history_error"}

\* the except clause: st.error(...) and return None, None
FetchFailed(period) == [info |-> "None", hist |-> "None", period |-> period, st_error |-> TRUE]

get_stock_data(symbol, attr, env) ==
    \* stock.info = None
    IF attr = "readonly_property" THEN FetchFailed("-")
    \* info = stock.info
    ELSE IF attr = "refreshing_property" /\ env = "info_error" THEN FetchFailed("-")
    \* hist = stock.history(period="1y", auto_adjust=True)
    ELSE IF env = "history_error" THEN FetchFailed("1y")
    ELSE [info     |-> CASE attr = "plain_attribute" -> "None"
                         [] env = "ok"               -> "full"
                         [] env = "missing_metric"   -> "partial"
                         [] OTHER                    -> "empty",
          hist     |-> "frame",
          period   |-> "1y",
          st_error |-> FALSE]

\* the provider's answers that get_stock_data can tell apart: none is read
\* behind a failed assignment, only the history behind a stored None
FetchAnswers(attr) ==
    CASE attr = "readonly_property" -> {"ok"}
      [] attr = "plain_attribute"   -> {"ok", "history_error"}
      [] OTHER                      -> FetchOutcomes

\* truth value of the info dict in `if info and hist is not None`
InfoTruthy(info) == info \in {"full", "partial"}

\* display_metrics(info): formatting the 'N/A' default with :,.2f raises
display_metrics_raises(info) == info = "partial"

(***************************************************************************)
(* The session-state updates of main()                                     *)
(***************************************************************************)
\* variant: the raw text is stored instead of the resolved symbol
AddToWatchlist_raw_text(wl, watchlist_symbol, symbol) ==
    IF Truthy(symbol) THEN wl \cup {watchlist_symbol} ELSE wl

\* variant: the button toggles membership
AddToWatchlist_toggle(wl, watchlist_symbol, symbol) ==
    IF Truthy(symbol)
    THEN IF symbol \in wl THEN wl \ {symbol} ELSE wl \cup {symbol}
    ELSE wl

\* symbol = get_symbol_from_name(watchlist_symbol)
\* if symbol: st.session_state.watchlist.add(symbol)
AddToWatchlist(wl, watchlist_symbol, symbol) ==
    IF Truthy(symbol) THEN wl \cup {symbol} ELSE wl

HistoryEntry(stock_symbol, timestamp, analysis_type) ==
    [symbol |-> stock_symbol, timestamp |-> timestamp, analysis_type |-> analysis_type]

\* variant: the entry is appended twice
RecordAnalysis_twice(history, stock_symbol, timestamp, analysis_type) ==
    Append(Append(history, HistoryEntry(stock_symbol, timestamp, analysis_type)),
           HistoryEntry(stock_symbol, timestamp, analysis_type))

\* st.session_state.analysis_history.append({...})
RecordAnalysis(history, stock_symbol, timestamp, analysis_type) ==
    Append(history, HistoryEntry(stock_symbol, timestamp, analysis_type))

(***************************************************************************)
(* The try block of the Analyze handler, entered with a truthy             *)
(* stock_symbol.  The result tells what was called and with what outcome   *)
(* ("-" = not reached), the exception the `except Exception` clause        *)
(* caught ("-" = none), and the session state it leaves.  env holds the    *)
(* outcomes of the collaborators: whether the Agent constructions succeed  *)
(* (init), how Ticker.info is declared (attr), what the provider does      *)
(* (fetch), and whether the agent query returns (agent).                   *)
(***************************************************************************)
FetchReached(ia) == ia.ret = "True"

AgentReached(ia, data) ==
    /\ FetchReached(ia)
    /\ InfoTruthy(data.info) /\ data.hist # "None"
    /\ ~display_metrics_raises(data.info)

\* variant: the history entry is written before the insight agent is queried
AnalyzeTry_record_first(initialized, history, stock_symbol, analysis_type, timestamp, env) ==
    LET env_init  == env.init
        env_fetch == env.fetch
        env_agent == env.agent
        ia   == initialize_agents(initialized, env_init)
        data == get_stock_data(stock_symbol, env.attr, env_fetch)
        skip == [initialized |-> ia.initialized, history |-> history, init |-> ia.ret,
                 fetch |-> "-", info |-> "-", hist |-> "-", period |-> "-",
                 agent |-> "-", caught |-> "-"]
        done == [skip EXCEPT !.fetch = "called", !.info = data.info, !.hist = data.hist,
                             !.period = data.period]
    IN  IF ~FetchReached(ia)
        THEN skip
        ELSE IF ~(InfoTruthy(data.info) /\ data.hist # "None")
        THEN done
        ELSE IF display_metrics_raises(data.info)
        THEN [done EXCEPT !.caught = "ValueError"]
        ELSE [done EXCEPT !.agent = IF env_agent THEN "ok" ELSE "raises",
                          !.caught = IF env_agent THEN "-" ELSE "AgentError",
                          !.history = RecordAnalysis(history, stock_symbol,
                                                     timestamp, analysis_type)]

AnalyzeTry(initialized, history, stock_symbol, analysis_type, timestamp, env) ==
    LET env_init  == env.init
        env_fetch == env.fetch
        env_agent == env.agent
        ia   == initialize_agents(initialized, env_init)
        data == get_stock_data(stock_symbol, env.attr, env_fetch)
        skip == [initialized |-> ia.initialized, history |-> history, init |-> ia.ret,
                 fetch |-> "-", info |-> "-", hist |-> "-", period |-> "-",
                 agent |-> "-", caught |-> "-"]
        done == [skip EXCEPT !.fetch = "called", !.info = data.info, !.hist = data.hist,
                             !.period = data.period]
    IN  \* if initialize_agents():
        IF ~FetchReached(ia)
        THEN skip
        \* if info and hist is not None:
        ELSE IF ~(InfoTruthy(data.info) /\ data.hist # "None")
        THEN done
        ELSE IF display_metrics_raises(data.info)
        THEN [done EXCEPT !.caught = "ValueError"]
        \* multi_ai_agent.print_response(query, stream=True)
        ELSE IF ~env_agent
        THEN [done EXCEPT !.agent = "raises", !.caught = "AgentError"]
        ELSE [done EXCEPT !.agent = "ok",
                          !.history = RecordAnalysis(history, stock_symbol,
                                                     timestamp, analysis_type)]

(***************************************************************************)
(* last: what the latest run of the script did.                            *)
(*   op, text          the button pressed and the text handed to it        *)
(*   called, res       whether get_symbol_from_name ran, and its result    *)
(*   init .. caught    as in AnalyzeTry: fetch is "called" when            *)
(*                     get_stock_data ran, info and hist are what it       *)
(*                     returned, period is the window it asked for         *)
(*   date_range        the "Select Time Range" choice, when a fetch ran    *)
(*   analysis_type     the analysis type of the agent query, when one ran  *)
(*   present           for Add: whether the returned symbol was already in *)
(*                     the watchlist when the button was pressed           *)
(*   raised            the exception that left main() ("-" = none)         *)
(***************************************************************************)
NoRun ==
    [op |-> "-", text |-> <<>>, removed |-> None, called |-> FALSE, res |-> NoResolve,
     analysis_type |-> "-", date_range |-> "-",
     init |-> "-", fetch |-> "-", info |-> "-", hist |-> "-", period |-> "-",
     agent |-> "-", caught |-> "-",
     present |-> FALSE, raised |-> "-"]

Init ==
    /\ agents_initialized = FALSE
    /\ watchlist = {}
    /\ analysis_history = <<>>
    /\ last = NoRun
    /\ info_attr \in InfoAttrKinds

\* the provider is read only when the text misses the lookup table, and read
\* a second time only when the '.NS' probe gave no symbol
InTable(stock_name) ==
    Upper(stock_name) \in COMMON_STOCKS_values \cup COMMON_STOCKS_keys

Unasked == [raises |-> FALSE, symbol |-> None]

ProbeAnswers(stock_name) ==
    Asked(~InTable(stock_name), InfoResponses({Upper(stock_name) \o DotNS}), Unasked)

RawAnswers(stock_name, r3) ==
    Asked(~InTable(stock_name) /\ ~HasSymbol(r3), InfoResponses(InfoSymbols), Unasked)

\* the sidebar's "Add" button, with watchlist_symbol in the text input
Add(watchlist_symbol) ==
    \E r3 \in ProbeAnswers(watchlist_symbol) : \E r4 \in RawAnswers(watchlist_symbol, r3) :
      LET res == get_symbol_from_name(watchlist_symbol, r3, r4)
      IN  /\ watchlist' = AddToWatchlist(watchlist, watchlist_symbol, res.ret)
          /\ last' = [NoRun EXCEPT !.op = "add", !.text = watchlist_symbol,
                                   !.called = TRUE, !.res = res,
                                   !.present = res.ret \in watchlist]
          /\ UNCHANGED <<agents_initialized, analysis_history, info_attr>>

\* a "Remove" button of the watchlist loop: the set is changed while the
\* for-loop iterates over it, so the loop's next step raises RuntimeError
Remove(symbol) ==
    /\ symbol \in watchlist
    /\ watchlist' = watchlist \ {symbol}
    /\ last' = [NoRun EXCEPT !.op = "remove", !.removed = symbol,
                             !.raised = "RuntimeError"]
    /\ UNCHANGED <<agents_initialized, analysis_history, info_attr>>

\* the "Analyze" button, with stock_input in the text input
Analyze(stock_input) ==
    IF ~Truthy(stock_input)
    THEN \* st.error("Please enter a stock name or symbol."); return
         /\ last' = [NoRun EXCEPT !.op = "analyze", !.text = stock_input]
         /\ UNCHANGED <<agents_initialized, watchlist, analysis_history, info_attr>>
    ELSE
      \E r3 \in ProbeAnswers(stock_input) : \E r4 \in RawAnswers(stock_input, r3) :
        LET res == get_symbol_from_name(stock_input, r3, r4)
            run == [NoRun EXCEPT !.op = "analyze", !.text = stock_input,
                                 !.called = TRUE, !.res = res]
        IN  IF ~Truthy(res.ret)
            THEN /\ last' = run
                 /\ UNCHANGED <<agents_initialized, watchlist, analysis_history, info_attr>>
            ELSE
              \E env_init \in Asked(~agents_initialized, BOOLEAN, TRUE) :
                LET ia == initialize_agents(agents_initialized, env_init)
                IN  \E env_fetch \in Asked(FetchReached(ia), FetchAnswers(info_attr), "ok"),
                       date_range \in Asked(FetchReached(ia), DateRanges, "-") :
                      LET data  == get_stock_data(res.ret, info_attr, env_fetch)
                          agent == AgentReached(ia, data)
                      IN  \E env_agent \in Asked(agent, BOOLEAN, TRUE),
                             analysis_type \in Asked(agent, AnalysisTypes, "-"),
                             timestamp \in Asked(agent, Timestamps, 0) :
                            LET try == AnalyzeTry(agents_initialized, analysis_history,
                                                  res.ret, analysis_type, timestamp,
                                                  [init |-> env_init,
                                                   attr |-> info_attr,
                                                   fetch |-> env_fetch,
                                                   agent |-> env_agent])
                            IN  /\ agents_initialized' = try.initialized
                                /\ analysis_history' = try.history
                                /\ last' = [run EXCEPT !.init = try.init,
                                                       !.fetch = try.fetch,
                                                       !.info = try.info,
                                                       !.hist = try.hist,
                                                       !.period = try.period,
                                                       !.agent = try.agent,
                                                       !.caught = try.caught,
                                                       !.date_range = date_range,
                                                       !.analysis_type = analysis_type]
                                /\ UNCHANGED <<watchlist, info_attr>>

Next ==
    \/ \E t \in Texts : Add(t)
    \/ \E s \in watchlist : Remove(s)
    \/ \E t \in Texts : Analyze(t)

Spec == Init /\ [][Next]_vars

(***************************************************************************)
(* Properties                                                              *)
(***************************************************************************)
\* empty, or nothing but spaces
IsBlank(text) == \A i \in 1..Len(text) : text[i] = " "

IsPrefix(s, t) == Len(s) <= Len(t) /\ \A i \in 1..Len(s) : s[i] = t[i]

TCS_NS == <<"T","C","S",".","N","S">>

\* C1: an Add or Analyze whose text is empty or whitespace-only is rejected
\* before the market-data provider is queried: the run makes no provider call.
C1_BlankRejectedBeforeProvider ==
    (last.op \in {"add", "analyze"} /\ IsBlank(last.text))
        => (~last.called /\ last.res.calls = <<>>)

\* C2: in any session state, an Analyze whose non-blank text resolves to a
\* symbol (and whose agents are available) runs the fetch, and when the fetch
\* and the agent query succeed it appends exactly one entry {symbol,
\* timestamp, analysis_type} to the history.
C2_EveryAnalyzeRunsTheCycle ==
    [][ (/\ last'.op = "analyze"
         /\ ~IsBlank(last'.text)
         /\ Truthy(last'.res.ret)
         /\ last'.init # "False")
        => /\ last'.fetch # "-"
           /\ last'.info = "full" => last'.agent # "-"
           /\ (last'.info = "full" /\ last'.agent = "ok")
                => /\ Len(analysis_history') = Len(analysis_history) + 1
                   /\ IsPrefix(analysis_history, analysis_history')
                   /\ LET e == analysis_history'[Len(analysis_history')]
                      IN  /\ e.symbol = last'.res.ret
                          /\ e.analysis_type = last'.analysis_type
                          /\ e.timestamp \in Timestamps ]_vars

\* C3: get_symbol_from_name returns the result of the first step that yields
\* a symbol: (1) the upper-cased text is a table value -> that value; (2) it
\* is a table key -> the mapped ticker; (3) the provider confirms the
\* upper-cased text + ".NS" -> that probe; (4) the provider gives a symbol
\* field for the raw text -> that field; otherwise None.  Steps 1 and 2 make
\* no provider read, a later step is not consulted once an earlier one has
\* answered, a provider error is a step without a match, and no exception
\* leaves the function.
C3_ResolutionOrder ==
    last.called =>
      LET u == Upper(last.text)
          r == last.res
          n == Len(r.calls)
      IN  /\ ~r.raises
          /\ IF u \in COMMON_STOCKS_values
             THEN r.ret = u /\ n = 0
             ELSE IF \E i \in 1..Len(COMMON_STOCKS) : COMMON_STOCKS[i][1] = u
             THEN (\E i \in 1..Len(COMMON_STOCKS) : COMMON_STOCKS[i] = <<u, r.ret>>) /\ n = 0
             ELSE /\ n >= 1
                  /\ r.calls[1].query = u \o DotNS
                  /\ IF ~r.calls[1].response.raises /\ r.calls[1].response.symbol # None
                     THEN r.ret = u \o DotNS /\ n = 1
                     ELSE /\ n = 2
                          /\ r.calls[2].query = last.text
                          /\ r.ret = IF r.calls[2].response.raises
                                     THEN None
                                     ELSE r.calls[2].response.symbol

\* the '.NS' probe raised, and the raw-text lookup then gave the symbol
C3_Witness ==
    /\ last.called
    /\ Len(last.res.calls) = 2
    /\ last.res.calls[1].response.raises
    /\ last.res.ret = T_ZZZNOPE

\* C4: every element of the watchlist and the symbol of every history entry
\* is a value that a call of the resolver returned as a successful result.
\* Both start empty, and whatever a run stores is the (non-None) value the
\* resolver returned in that run; stored values are not changed afterwards.
C4_OnlyResolvedSymbolsStored ==
    [][ /\ (watchlist' \ watchlist) # {}
           => last'.called /\ last'.res.ret # None
              /\ watchlist' \ watchlist = {last'.res.ret}
        /\ \A i \in 1..Len(analysis_history') :
             IF i <= Len(analysis_history)
             THEN analysis_history'[i].symbol = analysis_history[i].symbol
             ELSE /\ last'.called /\ last'.res.ret # None
                  /\ analysis_history'[i].symbol = last'.res.ret ]_vars

\* a symbol returned for a differently written text is in the watchlist and
\* a provider-confirmed symbol is in the history
C4_Witness ==
    /\ TCS_NS \in watchlist
    /\ Len(analysis_history) = 1
    /\ analysis_history[1].symbol = T_ZZZNOPE \o DotNS

\* a run of Add or Analyze that ends in a failure
FailedCycle(l) ==
    /\ l.op \in {"add", "analyze"}
    /\ l.called
    /\ \/ l.res.ret = None
       \/ l.init = "False"
       \/ l.fetch = "called" /\ (l.info \in {"None", "empty", "partial"} \/ l.hist = "None")
       \/ l.agent = "raises"

\* C5: an Add or Analyze that ends in a failure (resolver NotFound, agent
\* initialization fails, the fetch fails or gives no usable company info, the
\* insight agent raises) leaves the watchlist and the history as they were,
\* and no exception leaves the run.
C5_FailureLeavesStateUntouched ==
    [][ FailedCycle(last')
        => /\ watchlist' = watchlist
           /\ analysis_history' = analysis_history
           /\ last'.raised = "-" ]_vars

\* the insight agent raised while a watchlist existed
C5_Witness ==
    /\ last.op = "analyze"
    /\ last.agent = "raises"
    /\ last.caught = "AgentError"
    /\ watchlist # {}

\* C6: Remove of ticker t leaves the watchlist equal to its previous value
\* minus {t}, leaves the history unchanged, and the run that performs the
\* removal completes without an error.
C6_RemoveCompletesCleanly ==
    [][ last'.op = "remove"
        => /\ watchlist' = watchlist \ {last'.removed}
           /\ analysis_history' = analysis_history
           /\ last'.raised = "-" ]_vars

\* C7: Add is idempotent under set semantics: an Add that resolves to s
\* leaves the watchlist equal to the old one plus s (size +1 when s was
\* absent, +0 when present), and an Add directly after an Add that resolved
\* to the same ticker leaves the watchlist as it was.
C7_AddIdempotent ==
    [][ (last'.op = "add" /\ Truthy(last'.res.ret))
        => /\ watchlist' = watchlist \cup {last'.res.ret}
           /\ Cardinality(watchlist') =
                Cardinality(watchlist) + (IF last'.res.ret \in watchlist THEN 0 ELSE 1)
           /\ (last.op = "add" /\ last.res.ret = last'.res.ret)
                => watchlist' = watchlist ]_vars

\* "Tcs.n" + long s (upper-cased to TCS.NS) was added when its ticker was
\* already there: it is there once
C7_Witness ==
    /\ last.op = "add"
    /\ last.text = T_Tcs_ns
    /\ last.present
    /\ watchlist = {TCS_NS}

\* C8: the history is append-only: after every step the old history is a
\* prefix of the new one, and it grows exactly when an analysis is recorded
\* (the agent query returned), by exactly one entry.
C8_HistoryAppendOnly ==
    [][ /\ IsPrefix(analysis_history, analysis_history')
        /\ Len(analysis_history') =
             Len(analysis_history) + (IF last'.agent = "ok" THEN 1 ELSE 0) ]_vars

\* a recorded entry has survived a later Remove
C8_Witness ==
    /\ Len(analysis_history) = 1
    /\ last.op = "remove"

\* the period string of yfinance for a "Select Time Range" option
PeriodOf(date_range) ==
    CASE date_range = "1 Month"  -> "1mo"
      [] date_range = "3 Months" -> "3mo"
      [] date_range = "6 Months" -> "6mo"
      [] date_range = "1 Year"   -> "1y"
      [] date_range = "5 Years"  -> "5y"
      [] OTHER                   -> "-"

\* C9: the price-history request of an Analyze run asks for the lookback
\* window the user selected.
C9_FetchUsesSelectedRange ==
    last.fetch # "-" => last.period = PeriodOf(last.date_range)

\* C10: initialize_agents returns a truthy value only on the call that turns
\* agents_initialized from False to True, agents_initialized never returns to
\* False, a run fetches only behind a truthy return, and the history never
\* holds more than one entry.
C10_OneAnalysisPerSession ==
    /\ [](Len(analysis_history) <= 1)
    /\ [][ /\ agents_initialized => agents_initialized'
           /\ last'.init = "True" => (~agents_initialized /\ agents_initialized')
           /\ last'.fetch # "-" => last'.init = "True" ]_vars

\* a later Analyze of a resolvable text was turned away at the gate
C10_Witness ==
    /\ agents_initialized
    /\ Len(analysis_history) = 1
    /\ last.op = "analyze"
    /\ Truthy(last.res.ret)
    /\ last.init = "None"

====
